---- MODULE Spec2Model ----
(***************************************************************************)
(* A model of the BSP superstep engine of bspClass.h: P worker threads     *)
(* ("processes") that alternate user code and the four-gate Sync protocol, *)
(* with the Put/Get/Send/PushReg/PopReg queues, the staging arenas, the    *)
(* registration tables and the abort channel.                              *)
(*                                                                         *)
(* Memory is one flat address space (the threads share it); process p owns *)
(* the cells OwnAddr(p).  One cell stands for one unit of copied data.     *)
(* The barrier (bsp/mixedBarrier.h), the stack arena                       *)
(* (bsp/stackAllocator.h) and the queue matrix                             *)
(* (bsp/communicationQueues.h) are modelled from their contracts.          *)
(***************************************************************************)
EXTENDS Integers, Sequences, FiniteSets, TLC

(***************************************************************************)
(* Bounds of the model.                                                    *)
(***************************************************************************)
NProcs == 2
MemSize == 2
MaxVal == 2
MaxOps == 3
MaxSync == 2

Procs == 0 .. NProcs - 1
Addr == 0 .. NProcs * MemSize - 1
OwnAddr(p) == p * MemSize .. p * MemSize + MemSize - 1
Byte == 0 .. MaxVal
Gates == {"A", "B", "C", "D", "E"}

VARIABLES
    pc,                       \* where each process is
    mem,                      \* the shared address space
    mRegisters,               \* per process: address -> [size, registerCount]
    mRegisterCount,           \* per process: the register counter
    mThreadRegisterLocation,  \* per process: global index -> address
    mPushRequests,            \* per process: pending PushRegs
    mPopRequests,             \* per process: pending PopRegs
    mPutRequests,             \* [from][to]: pending Puts
    mGetRequests,             \* [from][to]: pending Gets
    mPutBufferStacks,         \* per process: the put arena
    mTmpSendRequests,         \* [from][to]: staged Sends
    mTmpSendBuffers,          \* [from][to]: staged Send bytes
    mSendRequests,            \* per process: delivered Sends
    mSendBuffers,             \* per process: delivered Send bytes
    mSendReceivedIndex,       \* per process: the receive index
    mNewTagSize,              \* per process: proposed tag size
    mTagSize,                 \* the tag size in force
    mEnded,
    mAbort,
    barCount,                 \* barrier: arrivals of the current round
    barGen,                   \* barrier: the round's generation bit
    myGen,                    \* barrier: the generation each waiter arrived in
    ops,                      \* user operations issued since the last Sync returned
    fuel,                     \* user operations issued in the whole run
    syncNo,                   \* history: Sync calls entered, per process
    syncRet,                  \* history: Sync calls returned, per process
    arrived,                  \* history: SyncPoint calls made, per process
    passed,                   \* history: SyncPoint calls returned normally
    aborter,                  \* history: who called Abort first (or NoProc)
    memAtA,                   \* history: memory when the last process reached gate A
    putLog,                   \* history: the Puts issued, per process
    getLog,                   \* history: the Gets issued, per process
    sendLog,                  \* history: the Sends issued, per process
    pushLog,                  \* history: the addresses pushed, per process
    status,                   \* per process: GetTag's status out-parameter
    tagOut,                   \* per process: GetTag's tag out-parameter
    sizeOut,                  \* per process: SetTagsize's in/out parameter after the call
    tagAt,                    \* history: the superstep and receive index of the last GetTag
    moved,                    \* history: the superstep, receive index and arguments of the last Move
    qsize,                    \* history: the last QSize, and per process its out-parameters
    tagLog,                   \* history: the tag size pid 0 proposed, per Sync it entered
    popLog,                   \* history: the addresses popped, per process
    prog,                     \* the user program that runs
    upc,                      \* per process: its position in a scripted program
    iter                      \* per process: the loop counter i of a scripted program

regVars == <<mRegisters, mRegisterCount, mThreadRegisterLocation, mPushRequests,
             mPopRequests>>
putVars == <<mPutRequests, mGetRequests, mPutBufferStacks>>
sendVars == <<mTmpSendRequests, mTmpSendBuffers, mSendRequests, mSendBuffers,
              mSendReceivedIndex>>
tagVars == <<mNewTagSize, mTagSize>>
barVars == <<barCount, barGen, myGen>>
ctlVars == <<pc, barCount, barGen, myGen, arrived, passed, syncRet, ops>>
logVars == <<putLog, getLog, sendLog, pushLog>>
outVars == <<status, tagOut, sizeOut, tagAt, moved, qsize>>
vars == <<pc, mem, mRegisters, mRegisterCount, mThreadRegisterLocation, mPushRequests,
          mPopRequests, mPutRequests, mGetRequests, mPutBufferStacks, mTmpSendRequests,
          mTmpSendBuffers, mSendRequests, mSendBuffers, mSendReceivedIndex, mNewTagSize,
          mTagSize, mEnded, mAbort, barCount, barGen, myGen, ops, fuel, syncNo, syncRet,
          arrived, passed, aborter, memAtA, putLog, getLog, sendLog, pushLog, status,
          tagOut, sizeOut, tagAt, moved, qsize, tagLog, popLog, prog, upc, iter>>

NoProc == NProcs
EmptyMap == [a \in {} |-> [size |-> 0, registerCount |-> 0]]
SizeMax == 0 - 1
Stale == 0 - 1
NoTag == [k |-> 0, index |-> 0]
NoMove == [k |-> 0, index |-> 0, payload |-> 0, max |-> 0]
NoQSize == [k |-> 0, issued |-> 0, packets |-> 0, accumulatedSize |-> 0]
Min(a, b) == IF a <= b THEN a ELSE b

\* the n cells of memory m that start at address a
Cells(m, a, n) == [i \in 1 .. n |-> m[a + i - 1]]

(***************************************************************************)
(* The stack arena of bsp/stackAllocator.h, by its contract: an            *)
(* append-only sequence of cells.                                          *)
(***************************************************************************)
\* alloc(n, src): append the cells, return the offset they were placed at
AllocLocation(stack) == Len(stack)
Alloc(stack, cells) == stack \o cells

\* extract(offset, n, dst): the n cells at offset, written to memory m at dst
ExtractCell(stack, k) == IF k \in 1 .. Len(stack) THEN stack[k] ELSE Stale
ExtractCells(stack, loc, n) == [i \in 1 .. n |-> ExtractCell(stack, loc + i)]
\* memory m with the cells written at dst
Write(m, dst, cells) ==
    [a \in DOMAIN m |-> IF a \in dst .. dst + Len(cells) - 1 THEN cells[a - dst + 1] ELSE m[a]]

Extract(stack, loc, n, dst, m) ==
    [a \in DOMAIN m |-> IF a \in dst .. dst + n - 1
                        THEN ExtractCell(stack, loc + (a - dst) + 1)
                        ELSE m[a]]

Merge(stack, other) == stack \o other

(***************************************************************************)
(* The queue matrix of bsp/communicationQueues.h, by its contract:         *)
(* cell [from][to]; GetQueueFromMe(to, me) is cell [me][to] and            *)
(* GetQueueToMe(from, me) is cell [from][me].                              *)
(***************************************************************************)
GetQueueFromMe(q, to, me) == q[me][to]
GetQueueToMe(q, from, me) == q[from][me]
EmptyMatrix == [f \in Procs |-> [t \in Procs |-> <<>>]]
\* the matrix with every cell towards me emptied
ClearToMe(q, me) == [f \in Procs |-> [q[f] EXCEPT ![me] = <<>>]]

(***************************************************************************)
(* The worker boundary: the abort error is caught by the wrapper of an     *)
(* auxiliary worker; nothing catches it on the spawning thread.            *)
(***************************************************************************)
Unwind(p) == IF p = 0 THEN "uncaught" ELSE "terminated"

\* where a process continues after gate g lets it through
After(p, g) ==
    CASE g = "A" -> "phaseA"
      [] g = "B" -> "phaseB"
      [] g = "C" -> "phaseC"
      [] g = "D" -> "user"
      [] g = "E" -> IF p = 0 THEN "join" ELSE "terminated"

Waiting(g) == "wait" \o g
WaitPcs == {Waiting(g) : g \in Gates}
GateOf(w) == CHOOSE g \in Gates : Waiting(g) = w

\* the bookkeeping of a normal return from gate g
Passes(p, g) ==
    /\ pc' = [pc EXCEPT ![p] = After(p, g)]
    /\ passed' = [passed EXCEPT ![p] = @ + 1]
    /\ syncRet' = [syncRet EXCEPT ![p] = IF g = "D" THEN @ + 1 ELSE @]
    /\ ops' = [ops EXCEPT ![p] = IF g = "D" THEN 0 ELSE @]

Raises(p) ==
    /\ pc' = [pc EXCEPT ![p] = Unwind(p)]
    /\ UNCHANGED <<passed, syncRet, ops>>

(***************************************************************************)
(* The barrier of bsp/mixedBarrier.h, by its contract: a reusable          *)
(* P-party rendezvous; a waiter that observes the abort flag raises.       *)
(***************************************************************************)
\* a participant calls wait
WaitEnter(p, g, aborted) ==
    /\ arrived' = [arrived EXCEPT ![p] = @ + 1]
    /\ IF aborted
       THEN Raises(p) /\ UNCHANGED barVars
       ELSE IF barCount + 1 = NProcs
            THEN /\ barCount' = 0
                 /\ barGen' = 1 - barGen
                 /\ myGen' = myGen
                 /\ Passes(p, g)
            ELSE /\ barCount' = barCount + 1
                 /\ barGen' = barGen
                 /\ myGen' = [myGen EXCEPT ![p] = barGen]
                 /\ pc' = [pc EXCEPT ![p] = Waiting(g)]
                 /\ UNCHANGED <<passed, syncRet, ops>>

\* a blocked participant polls: released by the round, or by the abort flag
WaitPoll(p, aborted) ==
    /\ pc[p] \in WaitPcs
    /\ UNCHANGED <<barVars, arrived>>
    /\ \/ barGen # myGen[p] /\ Passes(p, GateOf(pc[p]))
       \/ aborted /\ Raises(p)

(***************************************************************************)
(* The registration tables.  mRegisters[p] is a std::map: operator[]       *)
(* inserts a value-initialised entry for a key that is absent.             *)
(***************************************************************************)
NoRegisterInfo == [size |-> 0, registerCount |-> 0]
MapTouch(regs, a) == IF a \in DOMAIN regs THEN regs ELSE regs @@ (a :> NoRegisterInfo)
MapPut(regs, a, info) == [x \in DOMAIN regs \cup {a} |-> IF x = a THEN info ELSE regs[x]]
MapErase(regs, a) == [x \in DOMAIN regs \ {a} |-> regs[x]]

(***************************************************************************)
(* Sync's drains.                                                          *)
(***************************************************************************)
\* (the addresses put in front of the table)
RECURSIVE PushAllInFront(_, _, _)
PushAllInFront(reqs, regs, table) ==
    IF reqs = <<>>
    THEN [regs |-> regs, table |-> table]
    ELSE PushAllInFront(Tail(reqs),
                        MapPut(regs, Head(reqs).pushRegister, Head(reqs).registerInfo),
                        <<Head(reqs).pushRegister>> \o table)

\* ProcessPushRequests: insert every pending push into the map, append its address
RECURSIVE PushAll(_, _, _)
PushAll(reqs, regs, table) ==
    IF reqs = <<>>
    THEN [regs |-> regs, table |-> table]
    ELSE PushAll(Tail(reqs),
                 MapPut(regs, Head(reqs).pushRegister, Head(reqs).registerInfo),
                 Append(table, Head(reqs).pushRegister))

ProcessPushRequests(pid) ==
    LET r == PushAll(mPushRequests[pid], mRegisters[pid], mThreadRegisterLocation[pid])
    IN /\ mRegisters' = [mRegisters EXCEPT ![pid] = r.regs]
       /\ mThreadRegisterLocation' = [mThreadRegisterLocation EXCEPT ![pid] = r.table]
       /\ mPushRequests' = [mPushRequests EXCEPT ![pid] = <<>>]

\* (the pending pops dropped)
PopNone(reqs, regs) == regs

\* ProcessPopRequests: erase every pending pop from the map; the table is not compacted
RECURSIVE PopAll(_, _)
PopAll(reqs, regs) ==
    IF reqs = <<>> THEN regs
    ELSE PopAll(Tail(reqs), MapErase(regs, Head(reqs).popRegister))

ProcessPopRequests(pid) ==
    /\ mRegisters' = [mRegisters EXCEPT ![pid] = PopAll(mPopRequests[pid], @)]
    /\ mPopRequests' = [mPopRequests EXCEPT ![pid] = <<>>]

\* (the queue applied front to back, so that the last Put issued decides)
RECURSIVE ApplyPutsForward(_, _, _)
ApplyPutsForward(queue, stack, m) ==
    IF queue = <<>> THEN m
    ELSE LET r == Head(queue)
         IN ApplyPutsForward(Tail(queue), stack,
                             Extract(stack, r.bufferLocation, r.size, r.destination, m))

\* one owner's queue towards pid, applied back to front out of the owner's arena
RECURSIVE ApplyPuts(_, _, _)
ApplyPuts(queue, stack, m) ==
    IF queue = <<>> THEN m
    ELSE LET r == queue[Len(queue)]
         IN ApplyPuts(SubSeq(queue, 1, Len(queue) - 1), stack,
                      Extract(stack, r.bufferLocation, r.size, r.destination, m))

\* (the queues applied out of the receiver's arena instead of the owner's)
RECURSIVE PutsFromOwnArena(_, _)
PutsFromOwnArena(pid, n) ==
    IF n = 0 THEN mem
    ELSE ApplyPuts(GetQueueToMe(mPutRequests, n - 1, pid), mPutBufferStacks[pid],
                   PutsFromOwnArena(pid, n - 1))

\* memory after pid has applied the queues of owners 0 .. n-1
RECURSIVE PutsUpTo(_, _)
PutsUpTo(pid, n) ==
    IF n = 0 THEN mem
    ELSE ApplyPuts(GetQueueToMe(mPutRequests, n - 1, pid), mPutBufferStacks[n - 1],
                   PutsUpTo(pid, n - 1))

ProcessPutRequests(pid) ==
    /\ mem' = PutsUpTo(pid, NProcs)
    /\ mPutRequests' = ClearToMe(mPutRequests, pid)

\* (the Get queue served front to back)
RECURSIVE ServeGetsForward(_, _, _, _)
ServeGetsForward(queue, stack, puts, m) ==
    IF queue = <<>> THEN [stack |-> stack, puts |-> puts]
    ELSE LET r == Head(queue)
         IN ServeGetsForward(Tail(queue),
                             Alloc(stack, Cells(m, r.source, r.size)),
                             Append(puts, [bufferLocation |-> AllocLocation(stack),
                                           destination |-> r.destination,
                                           size |-> r.size]),
                             m)

\* one owner's Get queue, served back to front: stage the source cells in the
\* serving process's arena and queue a Put back to the owner
RECURSIVE ServeGets(_, _, _, _)
ServeGets(queue, stack, puts, m) ==
    IF queue = <<>> THEN [stack |-> stack, puts |-> puts]
    ELSE LET r == queue[Len(queue)]
         IN ServeGets(SubSeq(queue, 1, Len(queue) - 1),
                      Alloc(stack, Cells(m, r.source, r.size)),
                      Append(puts, [bufferLocation |-> AllocLocation(stack),
                                    destination |-> r.destination,
                                    size |-> r.size]),
                      m)

\* pid's arena and outgoing Put row after serving the Gets of owners 0 .. n-1
RECURSIVE GetsUpTo(_, _, _)
GetsUpTo(pid, n, m) ==
    IF n = 0 THEN [stack |-> mPutBufferStacks[pid], puts |-> mPutRequests[pid]]
    ELSE LET prev == GetsUpTo(pid, n - 1, m)
             r == ServeGets(GetQueueToMe(mGetRequests, n - 1, pid), prev.stack,
                            prev.puts[n - 1], m)
         IN [stack |-> r.stack, puts |-> [prev.puts EXCEPT ![n - 1] = r.puts]]

\* (the Gets served from memory as the inbound Puts will leave it)
ProcessGetRequestsAfterPuts(pid) ==
    LET r == GetsUpTo(pid, NProcs, PutsUpTo(pid, NProcs))
    IN /\ mPutBufferStacks' = [mPutBufferStacks EXCEPT ![pid] = r.stack]
       /\ mPutRequests' = [mPutRequests EXCEPT ![pid] = r.puts]
       /\ mGetRequests' = ClearToMe(mGetRequests, pid)

\* ProcessGetRequests: every owner's queue to pid becomes Puts back to the owner
ProcessGetRequests(pid) ==
    LET r == GetsUpTo(pid, NProcs, mem)
    IN /\ mPutBufferStacks' = [mPutBufferStacks EXCEPT ![pid] = r.stack]
       /\ mPutRequests' = [mPutRequests EXCEPT ![pid] = r.puts]
       /\ mGetRequests' = ClearToMe(mGetRequests, pid)

\* (the locations left as staged)
RebaseNone(queue, offset) == queue

\* a staged queue with its locations rebased by offset
Rebase(queue, offset) ==
    [i \in 1 .. Len(queue) |->
        [queue[i] EXCEPT !.bufferLocation = @ + offset, !.tagLocation = @ + offset]]

\* (the owners merged from P-1 down to 0)
RECURSIVE SendsDownTo(_, _)
SendsDownTo(pid, n) ==
    IF n = 0 THEN [queue |-> <<>>, buffer |-> <<>>, offset |-> 0]
    ELSE LET prev == SendsDownTo(pid, n - 1)
             tmpQueue == GetQueueToMe(mTmpSendRequests, NProcs - n, pid)
             tmpBuffer == GetQueueToMe(mTmpSendBuffers, NProcs - n, pid)
         IN IF tmpQueue = <<>> THEN prev
            ELSE [queue |-> prev.queue \o Rebase(tmpQueue, prev.offset),
                  buffer |-> Merge(prev.buffer, tmpBuffer),
                  offset |-> prev.offset + Len(tmpBuffer)]

\* pid's delivered queue and receive arena after merging owners 0 .. n-1
RECURSIVE SendsUpTo(_, _)
SendsUpTo(pid, n) ==
    IF n = 0 THEN [queue |-> <<>>, buffer |-> <<>>, offset |-> 0]
    ELSE LET prev == SendsUpTo(pid, n - 1)
             tmpQueue == GetQueueToMe(mTmpSendRequests, n - 1, pid)
             tmpBuffer == GetQueueToMe(mTmpSendBuffers, n - 1, pid)
         IN IF tmpQueue = <<>> THEN prev
            ELSE [queue |-> prev.queue \o Rebase(tmpQueue, prev.offset),
                  buffer |-> Merge(prev.buffer, tmpBuffer),
                  offset |-> prev.offset + Len(tmpBuffer)]

ProcessSendRequests(pid) ==
    LET r == SendsUpTo(pid, NProcs)
        used == {o \in Procs : GetQueueToMe(mTmpSendRequests, o, pid) # <<>>}
    IN /\ mSendRequests' = [mSendRequests EXCEPT ![pid] = r.queue]
       /\ mSendReceivedIndex' = [mSendReceivedIndex EXCEPT ![pid] = 0]
       /\ mSendBuffers' = [mSendBuffers EXCEPT ![pid] = r.buffer]
       /\ mTmpSendRequests' = ClearToMe(mTmpSendRequests, pid)
       /\ mTmpSendBuffers' =
              [f \in Procs |-> [mTmpSendBuffers[f] EXCEPT
                                   ![pid] = IF f \in used THEN <<>> ELSE @]]

(***************************************************************************)
(* The gates of Sync and End.                                              *)
(***************************************************************************)
\* (a gate that lets every caller through at once)
SyncPointNoBarrier(p, g) ==
    /\ arrived' = [arrived EXCEPT ![p] = @ + 1]
    /\ Passes(p, g)
    /\ UNCHANGED barVars

\* (a waiter that never looks at the abort flag)
SyncPointResumeBlind(p) == WaitPoll(p, FALSE)

\* SyncPoint: wait at the barrier with the abort flag
SyncPoint(p, g) == WaitEnter(p, g, mAbort)

\* a process blocked in SyncPoint is released, or raises on abort
SyncPointResume(p) == WaitPoll(p, mAbort)

\* this arrival at the barrier completes the round
LastToArrive == ~mAbort /\ barCount + 1 = NProcs

userVars == <<mem, mRegisters, mRegisterCount, mThreadRegisterLocation, mPushRequests,
              mPopRequests, mPutRequests, mGetRequests, mPutBufferStacks,
              mTmpSendRequests, mTmpSendBuffers, mSendRequests, mSendBuffers,
              mSendReceivedIndex, mNewTagSize, mTagSize, mEnded, mAbort>>
histVars == <<aborter, popLog, logVars, outVars>>
harnessVars == <<fuel, prog, upc, iter>>

(***************************************************************************)
(* Sync, one action per stretch between two gates.                         *)
(***************************************************************************)
\* Sync, up to the first gate
SyncBegin(p) ==
    /\ pc[p] = "user"
    /\ syncNo' = [syncNo EXCEPT ![p] = @ + 1]
    /\ memAtA' = IF LastToArrive THEN mem ELSE memAtA
    /\ tagLog' = IF p = 0 THEN Append(tagLog, mNewTagSize[0]) ELSE tagLog
    /\ SyncPoint(p, "A")
    /\ UNCHANGED <<userVars, histVars, fuel, prog, iter>>

\* (phase A in which every process adopts its own proposed tag size)
SyncPhaseAAnyPid(p) ==
    /\ pc[p] = "phaseA"
    /\ mTagSize' = mNewTagSize[p]
    /\ ProcessGetRequests(p)
    /\ SyncPoint(p, "B")
    /\ UNCHANGED <<mem, regVars, sendVars, mNewTagSize, mEnded, mAbort, syncNo, memAtA, tagLog,
                   histVars, harnessVars>>

\* phase A: pid 0 adopts its proposed tag size; inbound Gets become Puts
SyncPhaseA(p) ==
    /\ pc[p] = "phaseA"
    /\ mTagSize' = IF p = 0 /\ mNewTagSize[0] # mTagSize THEN mNewTagSize[0] ELSE mTagSize
    /\ ProcessGetRequests(p)
    /\ SyncPoint(p, "B")
    /\ UNCHANGED <<mem, regVars, sendVars, mNewTagSize, mEnded, mAbort, syncNo, memAtA, tagLog,
                   histVars, harnessVars>>

\* (phase B that goes on to phase C without waiting for the others)
SyncPhaseBNoGate(p) ==
    /\ pc[p] = "phaseB"
    /\ ProcessPopRequests(p)
    /\ ProcessSendRequests(p)
    /\ ProcessPutRequests(p)
    /\ SyncPointNoBarrier(p, "C")
    /\ UNCHANGED <<mRegisterCount, mThreadRegisterLocation, mPushRequests, mGetRequests,
                   mPutBufferStacks, tagVars, mEnded, mAbort, syncNo, memAtA, tagLog, histVars,
                   harnessVars>>

\* phase B: pops, then inbound Sends, then inbound Puts
SyncPhaseB(p) ==
    /\ pc[p] = "phaseB"
    /\ ProcessPopRequests(p)
    /\ ProcessSendRequests(p)
    /\ ProcessPutRequests(p)
    /\ SyncPoint(p, "C")
    /\ UNCHANGED <<mRegisterCount, mThreadRegisterLocation, mPushRequests, mGetRequests,
                   mPutBufferStacks, tagVars, mEnded, mAbort, syncNo, memAtA, tagLog, histVars,
                   harnessVars>>

\* phase C: clear the own put arena, then the pushes
SyncPhaseC(p) ==
    /\ pc[p] = "phaseC"
    /\ mPutBufferStacks' = [mPutBufferStacks EXCEPT ![p] = <<>>]
    /\ ProcessPushRequests(p)
    /\ SyncPoint(p, "D")
    /\ UNCHANGED <<mem, mRegisterCount, mPopRequests, mPutRequests, mGetRequests,
                   sendVars, tagVars, mEnded, mAbort, syncNo, memAtA, tagLog, histVars,
                   harnessVars>>

\* a process blocked at a gate of Sync or End
SyncResume(p) ==
    /\ SyncPointResume(p)
    /\ UNCHANGED <<userVars, syncNo, memAtA, tagLog, histVars, harnessVars>>

\* End, up to its gate
End(p) ==
    /\ pc[p] = "user"
    /\ mEnded' = TRUE
    /\ SyncPoint(p, "E")
    /\ UNCHANGED <<mem, regVars, putVars, sendVars, tagVars, mAbort, syncNo, memAtA, tagLog,
                   histVars, fuel, prog, iter>>

\* (End on pid 0 that returns without waiting for the auxiliary workers)
EndJoinNoWait ==
    /\ pc[0] = "join"
    /\ pc' = [pc EXCEPT ![0] = "done"]
    /\ UNCHANGED <<barVars, arrived, passed, syncRet, ops, userVars, syncNo, memAtA, tagLog,
                   histVars, harnessVars>>

\* End on pid 0: mThreads.clear() waits for every auxiliary worker
EndJoin ==
    /\ pc[0] = "join"
    /\ \A q \in Procs \ {0} : pc[q] = "terminated"
    /\ pc' = [pc EXCEPT ![0] = "done"]
    /\ UNCHANGED <<barVars, arrived, passed, syncRet, ops, userVars, syncNo, memAtA, tagLog,
                   histVars, harnessVars>>

(***************************************************************************)
(* The operations of user code, as the program's handlers.                 *)
(***************************************************************************)
\* VAbort: set the flag, then CheckAborted throws
VAbort(p) ==
    /\ mAbort' = TRUE
    /\ pc' = [pc EXCEPT ![p] = Unwind(p)]

\* (a push that takes effect at once)
PushRegEager(pid, ident, size) ==
    /\ mRegisters' = [mRegisters EXCEPT ![pid] =
           MapPut(@, ident, [size |-> size, registerCount |-> mRegisterCount[pid]])]
    /\ mThreadRegisterLocation' = [mThreadRegisterLocation EXCEPT ![pid] = Append(@, ident)]
    /\ mPushRequests' = [mPushRequests EXCEPT ![pid] =
           Append(@, [pushRegister |-> ident,
                      registerInfo |-> [size |-> size,
                                        registerCount |-> mRegisterCount[pid]]])]
    /\ mRegisterCount' = [mRegisterCount EXCEPT ![pid] = @ + 1]
    /\ UNCHANGED mPopRequests

\* PushReg: queue the push with the register counter's value, then increment it
PushReg(pid, ident, size) ==
    /\ mPushRequests' = [mPushRequests EXCEPT ![pid] =
           Append(@, [pushRegister |-> ident,
                      registerInfo |-> [size |-> size,
                                        registerCount |-> mRegisterCount[pid]]])]
    /\ mRegisterCount' = [mRegisterCount EXCEPT ![pid] = @ + 1]
    /\ UNCHANGED <<mRegisters, mThreadRegisterLocation, mPopRequests>>

\* PopReg: queue the pop
PopReg(pid, ident) ==
    /\ mPopRequests' = [mPopRequests EXCEPT ![pid] = Append(@, [popRegister |-> ident])]
    /\ UNCHANGED <<mRegisters, mRegisterCount, mThreadRegisterLocation, mPushRequests>>

\* Put: resolve dst through the caller's map and the target's table, stage the
\* source cells in the caller's arena, queue the request towards the target.
\* The assertions are guards: a Put that fails one is not issued.
Put(tpid, pid, src, dst, offset, nbytes) ==
    LET regs1 == [mRegisters EXCEPT ![tpid] = MapTouch(@, dst)]
        globalId == regs1[tpid][dst].registerCount
        table == mThreadRegisterLocation[pid]
    IN /\ Len(table) > globalId
       /\ LET dstBuff == table[globalId + 1]
              regs2 == [regs1 EXCEPT ![pid] = MapTouch(@, dstBuff)]
          IN /\ regs2[pid][dstBuff].size >= nbytes
             /\ mRegisters' = regs2
             /\ mPutBufferStacks' = [mPutBufferStacks EXCEPT ![tpid] =
                                        Alloc(@, Cells(mem, src, nbytes))]
             /\ mPutRequests' = [mPutRequests EXCEPT ![tpid][pid] =
                    Append(@, [bufferLocation |-> AllocLocation(mPutBufferStacks[tpid]),
                               destination |-> dstBuff + offset,
                               size |-> nbytes])]
             /\ UNCHANGED mGetRequests

\* Get: resolve src through the caller's map and the target's table, queue the
\* request towards the target.  The table is indexed unchecked: a global index
\* the target's table does not have is outside what is modelled.
Get(tpid, pid, src, offset, dst, nbytes) ==
    LET regs1 == [mRegisters EXCEPT ![tpid] = MapTouch(@, src)]
        globalId == regs1[tpid][src].registerCount
        table == mThreadRegisterLocation[pid]
    IN /\ Len(table) > globalId
       /\ LET srcBuff == table[globalId + 1]
              regs2 == [regs1 EXCEPT ![pid] = MapTouch(@, srcBuff)]
          IN /\ regs2[pid][srcBuff].size >= nbytes
             /\ mRegisters' = regs2
             /\ mGetRequests' = [mGetRequests EXCEPT ![tpid][pid] =
                    Append(@, [destination |-> dst,
                               source |-> srcBuff + offset,
                               size |-> nbytes])]
             /\ UNCHANGED <<mPutRequests, mPutBufferStacks>>


\* Send: stage the payload and then the tag in the arena towards pid, queue the
\* request with the tag size in force.  The assertion is a guard.
Send(tpid, pid, tag, payload, size) ==
    LET tmpSendBuffer == GetQueueFromMe(mTmpSendBuffers, pid, tpid)
        bufferLocation == AllocLocation(tmpSendBuffer)
        withPayload == Alloc(tmpSendBuffer, Cells(mem, payload, size))
        tagLocation == AllocLocation(withPayload)
    IN /\ mNewTagSize[tpid] = mTagSize
       /\ mTmpSendBuffers' = [mTmpSendBuffers EXCEPT ![tpid][pid] =
                                 Alloc(withPayload, Cells(mem, tag, mTagSize))]
       /\ mTmpSendRequests' = [mTmpSendRequests EXCEPT ![tpid][pid] =
              Append(@, [bufferLocation |-> bufferLocation, bufferSize |-> size,
                         tagLocation |-> tagLocation, tagSize |-> mTagSize])]
       /\ UNCHANGED <<mSendRequests, mSendBuffers, mSendReceivedIndex>>

\* (a Move that copies the whole payload, whatever room it is given)
MoveWhole(pid, payload, max_copy_size_in) ==
    LET index == mSendReceivedIndex[pid]
        queue == mSendRequests[pid]
    IN IF queue = <<>>
       THEN UNCHANGED <<mem, mSendReceivedIndex>>
       ELSE /\ mSendReceivedIndex' = [mSendReceivedIndex EXCEPT ![pid] = index + 1]
            /\ mem' = Extract(mSendBuffers[pid], queue[index + 1].bufferLocation,
                              queue[index + 1].bufferSize, payload, mem)

\* Move: nothing when the delivered queue is empty; else take the request at the
\* receive index, advance the index, copy min(max_copy_size_in, bufferSize)
\* cells.  The index is not checked against the queue's length: past the end
\* the request read is indeterminate, and so is what is copied.
Move(pid, payload, max_copy_size_in) ==
    LET index == mSendReceivedIndex[pid]
        queue == mSendRequests[pid]
    IN IF queue = <<>>
       THEN UNCHANGED <<mem, mSendReceivedIndex>>
       ELSE /\ mSendReceivedIndex' = [mSendReceivedIndex EXCEPT ![pid] = index + 1]
            /\ IF index < Len(queue)
               THEN LET request == queue[index + 1]
                        copySize == Min(max_copy_size_in, request.bufferSize)
                    IN mem' = Extract(mSendBuffers[pid], request.bufferLocation,
                                      copySize, payload, mem)
               ELSE \E copySize \in 0 .. max_copy_size_in :
                       \E junk \in [1 .. copySize -> Byte \cup {Stale}] :
                          mem' = Write(mem, payload, junk)

\* (the size proposed handed back)
SetTagsizeEcho(pid, size) ==
    /\ sizeOut' = [sizeOut EXCEPT ![pid] = size]
    /\ mNewTagSize' = [mNewTagSize EXCEPT ![pid] = size]
    /\ UNCHANGED mTagSize

\* the payload sizes of a queue of Send requests, added up
RECURSIVE Accumulate(_)
Accumulate(queue) ==
    IF queue = <<>> THEN 0 ELSE Head(queue).bufferSize + Accumulate(Tail(queue))

\* (the messages not yet moved, and their sizes)
QSizeRemaining(pid) ==
    LET sendQueue == SubSeq(mSendRequests[pid], mSendReceivedIndex[pid] + 1,
                            Len(mSendRequests[pid]))
    IN [packets |-> Len(sendQueue), accumulatedSize |-> Accumulate(sendQueue)]

\* QSize: the out-parameters, read off the queue mSendRequests[ProcId()]
QSize(pid) ==
    LET sendQueue == mSendRequests[pid]
    IN [packets |-> Len(sendQueue), accumulatedSize |-> Accumulate(sendQueue)]

\* SetTagsize: hand back the tag size in force, record the proposal
SetTagsize(pid, size) ==
    /\ sizeOut' = [sizeOut EXCEPT ![pid] = mTagSize]
    /\ mNewTagSize' = [mNewTagSize EXCEPT ![pid] = size]
    /\ UNCHANGED mTagSize

\* GetTag: status is SIZE_MAX unless a delivered request is left; then status is
\* its payload size and its tag is copied out.  A request whose tag size is not
\* the one in force fails the assertion, which stops the process.
GetTag(pid) ==
    LET index == mSendReceivedIndex[pid]
        sendQueue == mSendRequests[pid]
    IN IF sendQueue # <<>> /\ index < Len(sendQueue)
       THEN LET sendRequest == sendQueue[index + 1]
            IN /\ status' = [status EXCEPT ![pid] = sendRequest.bufferSize]
               /\ IF sendRequest.tagSize = mTagSize
                  THEN /\ tagOut' = [tagOut EXCEPT ![pid] =
                             ExtractCells(mSendBuffers[pid], sendRequest.tagLocation,
                                          sendRequest.tagSize)]
                       /\ UNCHANGED pc
                  ELSE /\ pc' = [pc EXCEPT ![pid] = "asserted"]
                       /\ UNCHANGED tagOut
       ELSE /\ status' = [status EXCEPT ![pid] = SizeMax]
            /\ UNCHANGED <<tagOut, pc>>
(***************************************************************************)
(* User code that chooses its operations freely, within the bounds.        *)
(***************************************************************************)
\* an operation that consumes what a Sync delivered
Uses(p) ==
    /\ prog = "free"
    /\ pc[p] = "user"
    /\ fuel < MaxOps
    /\ fuel' = fuel + 1
    /\ ops' = [ops EXCEPT ![p] = @ + 1]
    /\ UNCHANGED <<pc, barVars, arrived, passed, syncRet, syncNo, memAtA, tagLog, prog, upc, iter>>

\* an operation whose effect a later Sync delivers: issued while a Sync can follow
Issues(p) ==
    /\ syncNo[p] < MaxSync
    /\ Uses(p)

USync(p) ==
    /\ prog = "free"
    /\ syncNo[p] < MaxSync
    /\ SyncBegin(p)
    /\ UNCHANGED upc

UEnd(p) ==
    /\ prog = "free"
    /\ End(p)
    /\ UNCHANGED upc

UAbort(p) ==
    /\ prog = "free"
    /\ pc[p] = "user"
    /\ VAbort(p)
    /\ aborter' = IF aborter = NoProc THEN p ELSE aborter
    /\ UNCHANGED <<barVars, arrived, passed, syncRet, ops, syncNo, memAtA, tagLog, mem, regVars,
                   putVars, sendVars, tagVars, mEnded, popLog, logVars, outVars, harnessVars>>

\* user code increments one of its own cells (as ++j does), once a Sync has returned
ULocalWrite(p) ==
    /\ Issues(p)
    /\ syncRet[p] >= 1
    /\ \E a \in OwnAddr(p) :
          mem' = [mem EXCEPT ![a] = (@ + 1) % (MaxVal + 1)]
    /\ UNCHANGED <<regVars, putVars, sendVars, tagVars, mEnded, mAbort, histVars>>

\* the record of a PushReg: the Sync that delivers it and the address pushed
PushEntry(p, ident) == [k |-> syncNo[p] + 1, ident |-> ident]

\* the registration an SPMD program starts with: a process pushes its cells as
\* one region before its first Sync
URegister(p) ==
    /\ prog = "free"
    /\ pc[p] = "user"
    /\ syncNo[p] = 0
    /\ mRegisterCount[p] = 0
    /\ \E ident \in {p * MemSize}, size \in {MemSize} :
          /\ PushReg(p, ident, size)
          /\ pushLog' = [pushLog EXCEPT ![p] = Append(@, PushEntry(p, ident))]
    /\ UNCHANGED <<ctlVars, syncNo, memAtA, tagLog, mem, putVars, sendVars, tagVars, mEnded,
                   mAbort, aborter, popLog, putLog, getLog, sendLog, outVars, harnessVars>>

UPushReg(p) ==
    /\ Issues(p)
    /\ \E ident \in OwnAddr(p), size \in 1 .. MemSize :
          /\ ident + size - 1 \in OwnAddr(p)
          /\ PushReg(p, ident, size)
          /\ pushLog' = [pushLog EXCEPT ![p] = Append(@, PushEntry(p, ident))]
    /\ UNCHANGED <<mem, putVars, sendVars, tagVars, mEnded, mAbort, aborter, popLog, putLog,
                   getLog, sendLog, outVars>>

\* the record of a PopReg: the Sync that applies it and the address popped
PopEntry(p, ident) == [k |-> syncNo[p] + 1, ident |-> ident]

UPopReg(p) ==
    /\ Issues(p)
    /\ \E ident \in OwnAddr(p) :
          /\ PopReg(p, ident)
          /\ popLog' = [popLog EXCEPT ![p] = Append(@, PopEntry(p, ident))]
    /\ UNCHANGED <<mem, putVars, sendVars, tagVars, mEnded, mAbort, aborter, logVars,
                   outVars>>

\* the address that a registered address a of tpid resolves to on pid
Resolve(tpid, pid, a) ==
    LET globalId == IF a \in DOMAIN mRegisters[tpid]
                    THEN mRegisters[tpid][a].registerCount ELSE 0
    IN mThreadRegisterLocation[pid][globalId + 1]

\* cells offset .. offset + nbytes - 1 lie inside the region pid registered at base
InRegion(pid, base, offset, nbytes) ==
    /\ base \in DOMAIN mRegisters[pid]
    /\ offset + nbytes <= mRegisters[pid][base].size

\* the record of a Put: the Sync that delivers it, the cells it writes (first
\* one "at") and the cells the source held when it was issued
PutEntry(p, pid, src, dst, offset, nbytes) ==
    [k |-> syncNo[p] + 1, to |-> pid, src |-> src, dst |-> dst, offset |-> offset,
     size |-> nbytes, at |-> Resolve(p, pid, dst) + offset,
     cells |-> Cells(mem, src, nbytes)]

\* a Put of a program that stays inside the registered regions
UPut(p) ==
    /\ Issues(p)
    /\ \E pid \in Procs, src \in OwnAddr(p), dst \in DOMAIN mRegisters[p],
          offset \in 0 .. MemSize - 1, nbytes \in 1 .. MemSize :
          /\ src + nbytes - 1 \in OwnAddr(p)
          /\ Put(p, pid, src, dst, offset, nbytes)
          /\ InRegion(pid, Resolve(p, pid, dst), offset, nbytes)
          /\ putLog' = [putLog EXCEPT ![p] =
                           Append(@, PutEntry(p, pid, src, dst, offset, nbytes))]
    /\ UNCHANGED <<mem, mRegisterCount, mThreadRegisterLocation, mPushRequests,
                   mPopRequests, sendVars, tagVars, mEnded, mAbort, aborter, popLog, getLog,
                   sendLog, pushLog, outVars>>

\* the record of a Get: the Sync that delivers it, the serving process, the
\* first source cell ("at") and the first destination cell
GetEntry(p, pid, src, offset, dst, nbytes) ==
    [k |-> syncNo[p] + 1, from |-> pid, src |-> src, dst |-> dst, offset |-> offset,
     size |-> nbytes, at |-> Resolve(p, pid, src) + offset]

\* a Get of a program that stays inside the registered regions
UGet(p) ==
    /\ Issues(p)
    /\ \E pid \in Procs, src \in DOMAIN mRegisters[p], offset \in 0 .. MemSize - 1,
          dst \in OwnAddr(p), nbytes \in 1 .. MemSize :
          /\ dst + nbytes - 1 \in OwnAddr(p)
          /\ Get(p, pid, src, offset, dst, nbytes)
          /\ InRegion(pid, Resolve(p, pid, src), offset, nbytes)
          /\ getLog' = [getLog EXCEPT ![p] =
                           Append(@, GetEntry(p, pid, src, offset, dst, nbytes))]
    /\ UNCHANGED <<mem, mRegisterCount, mThreadRegisterLocation, mPushRequests,
                   mPopRequests, sendVars, tagVars, mEnded, mAbort, aborter, popLog, putLog,
                   sendLog, pushLog, outVars>>

(***************************************************************************)
(* The program SyncTest of main.cpp: a ring in which every process puts    *)
(* its counter j to its successor, syncs, asserts j = i and increments j.  *)
(* MaxIter stands for the 1000000 iterations, NProcs for the 8 processes,  *)
(* one cell for the 4 bytes of j.                                          *)
(***************************************************************************)
MaxIter == 3
J(p) == p * MemSize
JSize == 1

\* bsp_push_reg( &j, 4 )
TPushReg(p) ==
    /\ prog = "SyncTest"
    /\ pc[p] = "user"
    /\ upc[p] = 0
    /\ upc' = [upc EXCEPT ![p] = 1]
    /\ PushReg(p, J(p), JSize)
    /\ pushLog' = [pushLog EXCEPT ![p] = Append(@, PushEntry(p, J(p)))]
    /\ UNCHANGED <<ctlVars, syncNo, memAtA, tagLog, mem, putVars, sendVars, tagVars, mEnded,
                   mAbort, aborter, popLog, putLog, getLog, sendLog, outVars, fuel, prog, iter>>

\* bsp_sync(), before the loop and in it
TSync(p) ==
    /\ prog = "SyncTest"
    /\ upc[p] \in {1, 3}
    /\ upc' = [upc EXCEPT ![p] = @ + 1]
    /\ SyncBegin(p)

\* bsp_put( ( pid + 1 ) % 8, &j, &j, 0, 4 )
TPut(p) ==
    /\ prog = "SyncTest"
    /\ pc[p] = "user"
    /\ upc[p] = 2
    /\ iter[p] < MaxIter
    /\ upc' = [upc EXCEPT ![p] = 3]
    /\ ops' = [ops EXCEPT ![p] = @ + 1]
    /\ Put(p, (p + 1) % NProcs, J(p), J(p), 0, JSize)
    /\ putLog' = [putLog EXCEPT ![p] =
                     Append(@, PutEntry(p, (p + 1) % NProcs, J(p), J(p), 0, JSize))]
    /\ UNCHANGED <<pc, barVars, arrived, passed, syncRet, syncNo, memAtA, tagLog, mem,
                   mRegisterCount, mThreadRegisterLocation, mPushRequests, mPopRequests,
                   sendVars, tagVars, mEnded, mAbort, aborter, popLog, getLog, sendLog, pushLog,
                   outVars, fuel, prog, iter>>

\* assert( j == i ) holds here; ++j and the loop's ++i
TIncrement(p) ==
    /\ prog = "SyncTest"
    /\ pc[p] = "user"
    /\ upc[p] = 4
    /\ upc' = [upc EXCEPT ![p] = 2]
    /\ ops' = [ops EXCEPT ![p] = @ + 1]
    /\ mem' = [mem EXCEPT ![J(p)] = @ + 1]
    /\ iter' = [iter EXCEPT ![p] = @ + 1]
    /\ UNCHANGED <<pc, barVars, arrived, passed, syncRet, syncNo, memAtA, tagLog, regVars,
                   putVars, sendVars, tagVars, mEnded, mAbort, histVars, fuel, prog>>

\* bsp_end()
TEnd(p) ==
    /\ prog = "SyncTest"
    /\ upc[p] = 2
    /\ iter[p] = MaxIter
    /\ upc' = [upc EXCEPT ![p] = 5]
    /\ End(p)

(***************************************************************************)
(* The state after Init and Begin: P processes in user code, every table,  *)
(* queue and arena empty, tag size 0.                                      *)
(***************************************************************************)
InitMem == [a \in Addr |-> a % (MaxVal + 1)]
SyncTestMem == [a \in Addr |-> IF a \in {J(p) : p \in Procs} THEN 0 ELSE InitMem[a]]

InitBegin ==
    /\ pc = [p \in Procs |-> "user"]
    /\ mRegisters = [p \in Procs |-> EmptyMap]
    /\ mRegisterCount = [p \in Procs |-> 0]
    /\ mThreadRegisterLocation = [p \in Procs |-> <<>>]
    /\ mPushRequests = [p \in Procs |-> <<>>]
    /\ mPopRequests = [p \in Procs |-> <<>>]
    /\ mPutRequests = EmptyMatrix
    /\ mGetRequests = EmptyMatrix
    /\ mPutBufferStacks = [p \in Procs |-> <<>>]
    /\ mTmpSendRequests = EmptyMatrix
    /\ mTmpSendBuffers = EmptyMatrix
    /\ mSendRequests = [p \in Procs |-> <<>>]
    /\ mSendBuffers = [p \in Procs |-> <<>>]
    /\ mSendReceivedIndex = [p \in Procs |-> 0]
    /\ mNewTagSize = [p \in Procs |-> 0]
    /\ mTagSize = 0
    /\ mEnded = FALSE
    /\ mAbort = FALSE
    /\ barCount = 0
    /\ barGen = 0
    /\ myGen = [p \in Procs |-> 0]
    /\ ops = [p \in Procs |-> 0]
    /\ fuel = 0
    /\ syncNo = [p \in Procs |-> 0]
    /\ syncRet = [p \in Procs |-> 0]
    /\ arrived = [p \in Procs |-> 0]
    /\ passed = [p \in Procs |-> 0]
    /\ aborter = NoProc
    /\ putLog = [p \in Procs |-> <<>>]
    /\ getLog = [p \in Procs |-> <<>>]
    /\ sendLog = [p \in Procs |-> <<>>]
    /\ pushLog = [p \in Procs |-> <<>>]
    /\ status = [p \in Procs |-> 0]
    /\ tagOut = [p \in Procs |-> <<>>]
    /\ sizeOut = [p \in Procs |-> 0]
    /\ tagAt = [p \in Procs |-> NoTag]
    /\ moved = [p \in Procs |-> NoMove]
    /\ qsize = [p \in Procs |-> NoQSize]
    /\ tagLog = <<>>
    /\ popLog = [p \in Procs |-> <<>>]
    /\ upc = [p \in Procs |-> 0]
    /\ iter = [p \in Procs |-> 0]

\* user code that chooses freely
InitFree ==
    /\ InitBegin
    /\ mem = InitMem
    /\ memAtA = InitMem
    /\ prog = "free"

\* SyncTest, with j = 0 on every process
InitSyncTest ==
    /\ InitBegin
    /\ mem = SyncTestMem
    /\ memAtA = SyncTestMem
    /\ prog = "SyncTest"

(***************************************************************************)
(* One-sided communication: free Puts, Gets and stores over one registered *)
(* region per process, and SyncTest.                                       *)
(***************************************************************************)
InitPutGet == InitFree \/ InitSyncTest

NextPutGet ==
    \/ \E p \in Procs : USync(p)
    \/ \E p \in Procs : SyncPhaseA(p)
    \/ \E p \in Procs : SyncPhaseB(p)
    \/ \E p \in Procs : SyncPhaseC(p)
    \/ \E p \in Procs : SyncResume(p)
    \/ \E p \in Procs : URegister(p)
    \/ \E p \in Procs : ULocalWrite(p)
    \/ \E p \in Procs : UPut(p)
    \/ \E p \in Procs : UGet(p)
    \/ \E p \in Procs : TPushReg(p)
    \/ \E p \in Procs : TSync(p)
    \/ \E p \in Procs : TPut(p)
    \/ \E p \in Procs : TIncrement(p)
    \/ \E p \in Procs : TEnd(p)
    \/ EndJoin

SpecPutGet == InitPutGet /\ [][NextPutGet]_vars

(***************************************************************************)
(* The barrier protocol and the abort channel: processes that only         *)
(* synchronise, end or abort.                                              *)
(***************************************************************************)
NextBarrier ==
    \/ \E p \in Procs : USync(p)
    \/ \E p \in Procs : SyncPhaseA(p)
    \/ \E p \in Procs : SyncPhaseB(p)
    \/ \E p \in Procs : SyncPhaseC(p)
    \/ \E p \in Procs : SyncResume(p)
    \/ \E p \in Procs : UEnd(p)
    \/ \E p \in Procs : UAbort(p)
    \/ EndJoin

Spec == InitFree /\ [][NextBarrier]_vars

(***************************************************************************)
(* Message passing: user code that proposes a tag size before its first    *)
(* Sync, sends freely in the superstep after it, and in its last superstep *)
(* peeks at each delivered message and then moves it.                      *)
(***************************************************************************)
MaxTag == 1

USetTagsize(p) ==
    /\ prog = "free"
    /\ pc[p] = "user"
    /\ syncNo[p] = 0
    /\ mNewTagSize[p] = 0
    /\ \E size \in 1 .. MaxTag : SetTagsize(p, size)
    /\ UNCHANGED <<ctlVars, syncNo, memAtA, tagLog, mem, regVars, putVars, sendVars, mEnded,
                   mAbort, aborter, popLog, logVars, status, tagOut, tagAt, moved, qsize, harnessVars>>

\* the record of a Send: the Sync that delivers it, the receiver, and the
\* payload and tag cells when it was issued
SendEntry(p, pid, tag, payload, size) ==
    [k |-> syncNo[p] + 1, to |-> pid, payload |-> Cells(mem, payload, size),
     tag |-> Cells(mem, tag, mTagSize)]

\* a Send of the first own cells; a tag of no cells is passed as the first address
USend(p) ==
    /\ Issues(p)
    /\ syncRet[p] >= 1
    /\ \E pid \in Procs, size \in 0 .. MemSize, payload \in {p * MemSize}, tag \in OwnAddr(p) :
          /\ IF mTagSize = 0 THEN tag = p * MemSize ELSE tag + mTagSize - 1 \in OwnAddr(p)
          /\ Send(p, pid, tag, payload, size)
          /\ sendLog' = [sendLog EXCEPT ![p] =
                            Append(@, SendEntry(p, pid, tag, payload, size))]
    /\ UNCHANGED <<mem, regVars, putVars, tagVars, mEnded, mAbort, aborter, popLog, putLog,
                   getLog, pushLog, outVars>>

\* the record of a GetTag: the superstep and the receive index
TagEntry(p) == [k |-> syncRet[p], index |-> mSendReceivedIndex[p]]

UGetTag(p) ==
    /\ prog = "free"
    /\ pc[p] = "user"
    /\ syncRet[p] = MaxSync
    /\ tagAt[p] # TagEntry(p)
    /\ GetTag(p)
    /\ tagAt' = [tagAt EXCEPT ![p] = TagEntry(p)]
    /\ UNCHANGED <<barVars, arrived, passed, syncRet, ops, syncNo, memAtA, tagLog, userVars,
                   aborter, popLog, logVars, sizeOut, moved, qsize, harnessVars>>

\* the record of a Move: the superstep, the receive index before it, its arguments
MoveEntry(p, payload, max) ==
    [k |-> syncRet[p], index |-> mSendReceivedIndex[p], payload |-> payload, max |-> max]

\* a Move into the own cells, of the message just peeked at, while a delivered
\* message is left or none was delivered
UMove(p) ==
    /\ prog = "free"
    /\ pc[p] = "user"
    /\ syncRet[p] = MaxSync
    /\ tagAt[p] = TagEntry(p)
    /\ mSendRequests[p] = <<>> \/ mSendReceivedIndex[p] < Len(mSendRequests[p])
    /\ \E max \in {MemSize} :
          /\ Move(p, p * MemSize, max)
          /\ moved' = [moved EXCEPT ![p] = MoveEntry(p, p * MemSize, max)]
    /\ UNCHANGED <<ctlVars, syncNo, memAtA, tagLog, regVars, putVars, mTmpSendRequests,
                   mTmpSendBuffers, mSendRequests, mSendBuffers, tagVars, mEnded, mAbort,
                   aborter, popLog, logVars, status, tagOut, sizeOut, tagAt, qsize, harnessVars>>

(***************************************************************************)
(* The program BspTest of main.cpp up to its third Sync: every process     *)
(* registers i, sends i (its pid) to process (pid + 7) mod P with no tag,  *)
(* syncs, moves the message into i and pops the registration.              *)
(***************************************************************************)
RingShift == 7
I(p) == p * MemSize
ISize == 1
BspTestMem == [a \in Addr |-> IF a \in {I(p) : p \in Procs} THEN a \div MemSize ELSE InitMem[a]]

\* BSPLib::PushReg( i )
BPushReg(p) ==
    /\ prog = "BspTest"
    /\ pc[p] = "user"
    /\ upc[p] = 0
    /\ upc' = [upc EXCEPT ![p] = 1]
    /\ PushReg(p, I(p), ISize)
    /\ pushLog' = [pushLog EXCEPT ![p] = Append(@, PushEntry(p, I(p)))]
    /\ UNCHANGED <<ctlVars, syncNo, memAtA, tagLog, mem, putVars, sendVars, tagVars, mEnded,
                   mAbort, aborter, popLog, putLog, getLog, sendLog, outVars, fuel, prog, iter>>

\* bsp_sync(), three times
BSync(p) ==
    /\ prog = "BspTest"
    /\ upc[p] \in {1, 3, 6}
    /\ upc' = [upc EXCEPT ![p] = @ + 1]
    /\ SyncBegin(p)

\* BSPLib::Send( ( s + 7 ) % nprocs, NULL, i )
BSend(p) ==
    /\ prog = "BspTest"
    /\ pc[p] = "user"
    /\ upc[p] = 2
    /\ upc' = [upc EXCEPT ![p] = 3]
    /\ ops' = [ops EXCEPT ![p] = @ + 1]
    /\ Send(p, (p + RingShift) % NProcs, I(p), I(p), ISize)
    /\ sendLog' = [sendLog EXCEPT ![p] =
                      Append(@, SendEntry(p, (p + RingShift) % NProcs, I(p), I(p), ISize))]
    /\ UNCHANGED <<pc, barVars, arrived, passed, syncRet, syncNo, memAtA, tagLog, mem, regVars,
                   putVars, tagVars, mEnded, mAbort, aborter, popLog, putLog, getLog, pushLog,
                   outVars, fuel, prog, iter>>

\* BSPLib::Move( i )
BMove(p) ==
    /\ prog = "BspTest"
    /\ pc[p] = "user"
    /\ upc[p] = 4
    /\ upc' = [upc EXCEPT ![p] = 5]
    /\ Move(p, I(p), ISize)
    /\ moved' = [moved EXCEPT ![p] = MoveEntry(p, I(p), ISize)]
    /\ UNCHANGED <<ctlVars, syncNo, memAtA, tagLog, regVars, putVars, mTmpSendRequests,
                   mTmpSendBuffers, mSendRequests, mSendBuffers, tagVars, mEnded, mAbort,
                   aborter, popLog, logVars, status, tagOut, sizeOut, tagAt, qsize, fuel, prog, iter>>

\* BSPLib::PopReg( i )
BPopReg(p) ==
    /\ prog = "BspTest"
    /\ pc[p] = "user"
    /\ upc[p] = 5
    /\ upc' = [upc EXCEPT ![p] = 6]
    /\ PopReg(p, I(p))
    /\ popLog' = [popLog EXCEPT ![p] = Append(@, PopEntry(p, I(p)))]
    /\ UNCHANGED <<ctlVars, syncNo, memAtA, tagLog, mem, putVars, sendVars, tagVars, mEnded,
                   mAbort, aborter, logVars, outVars, fuel, prog, iter>>

InitBspTest ==
    /\ InitBegin
    /\ mem = BspTestMem
    /\ memAtA = BspTestMem
    /\ prog = "BspTest"

InitSend == InitFree \/ InitBspTest

NextSend ==
    \/ \E p \in Procs : USync(p)
    \/ \E p \in Procs : SyncPhaseA(p)
    \/ \E p \in Procs : SyncPhaseB(p)
    \/ \E p \in Procs : SyncPhaseC(p)
    \/ \E p \in Procs : SyncResume(p)
    \/ \E p \in Procs : USetTagsize(p)
    \/ \E p \in Procs : USend(p)
    \/ \E p \in Procs : UGetTag(p)
    \/ \E p \in Procs : UMove(p)
    \/ \E p \in Procs : BPushReg(p)
    \/ \E p \in Procs : BSync(p)
    \/ \E p \in Procs : BSend(p)
    \/ \E p \in Procs : BMove(p)
    \/ \E p \in Procs : BPopReg(p)

SpecSend == InitSend /\ [][NextSend]_vars

(***************************************************************************)
(* Registration: user code that pushes and pops freely.                    *)
(***************************************************************************)
NextReg ==
    \/ \E p \in Procs : USync(p)
    \/ \E p \in Procs : SyncPhaseA(p)
    \/ \E p \in Procs : SyncPhaseB(p)
    \/ \E p \in Procs : SyncPhaseC(p)
    \/ \E p \in Procs : SyncResume(p)
    \/ \E p \in Procs : URegister(p)
    \/ \E p \in Procs : UPushReg(p)
    \/ \E p \in Procs : UPopReg(p)

SpecReg == InitFree /\ [][NextReg]_vars

(***************************************************************************)
(* Every kind of deferred operation in one superstep: after the            *)
(* registration and a Sync, a process issues each of Put, Get, Send,       *)
(* PushReg and PopReg at most once, in any order, and syncs.               *)
(***************************************************************************)
Once(p) ==
    /\ prog = "free"
    /\ pc[p] = "user"
    /\ syncRet[p] >= 1
    /\ syncNo[p] < MaxSync
    /\ ops' = [ops EXCEPT ![p] = @ + 1]
    /\ UNCHANGED <<pc, barVars, arrived, passed, syncRet, syncNo, memAtA, tagLog, harnessVars>>

\* a Put of the first own cell to the first cell of a region
DPut(p) ==
    /\ Once(p)
    /\ putLog[p] = <<>>
    /\ \E pid \in Procs :
          /\ Put(p, pid, p * MemSize, p * MemSize, 0, 1)
          /\ InRegion(pid, Resolve(p, pid, p * MemSize), 0, 1)
          /\ putLog' = [putLog EXCEPT ![p] =
                           Append(@, PutEntry(p, pid, p * MemSize, p * MemSize, 0, 1))]
    /\ UNCHANGED <<mem, mRegisterCount, mThreadRegisterLocation, mPushRequests,
                   mPopRequests, sendVars, tagVars, mEnded, mAbort, aborter, popLog, getLog,
                   sendLog, pushLog, outVars>>

\* a Get of the first cell of a region into the last own cell
DGet(p) ==
    /\ Once(p)
    /\ getLog[p] = <<>>
    /\ \E pid \in Procs :
          /\ Get(p, pid, p * MemSize, 0, p * MemSize + MemSize - 1, 1)
          /\ InRegion(pid, Resolve(p, pid, p * MemSize), 0, 1)
          /\ getLog' = [getLog EXCEPT ![p] =
                           Append(@, GetEntry(p, pid, p * MemSize, 0,
                                              p * MemSize + MemSize - 1, 1))]
    /\ UNCHANGED <<mem, mRegisterCount, mThreadRegisterLocation, mPushRequests,
                   mPopRequests, sendVars, tagVars, mEnded, mAbort, aborter, popLog, putLog,
                   sendLog, pushLog, outVars>>

\* a Send of the first own cell, with no tag
DSend(p) ==
    /\ Once(p)
    /\ sendLog[p] = <<>>
    /\ \E pid \in Procs :
          /\ Send(p, pid, p * MemSize, p * MemSize, 1)
          /\ sendLog' = [sendLog EXCEPT ![p] =
                            Append(@, SendEntry(p, pid, p * MemSize, p * MemSize, 1))]
    /\ UNCHANGED <<mem, regVars, putVars, tagVars, mEnded, mAbort, aborter, popLog, putLog,
                   getLog, pushLog, outVars>>

\* a PushReg of the last own cell
DPushReg(p) ==
    /\ Once(p)
    /\ mPushRequests[p] = <<>>
    /\ PushReg(p, p * MemSize + MemSize - 1, 1)
    /\ pushLog' = [pushLog EXCEPT ![p] =
                      Append(@, PushEntry(p, p * MemSize + MemSize - 1))]
    /\ UNCHANGED <<mem, putVars, sendVars, tagVars, mEnded, mAbort, aborter, popLog, putLog,
                   getLog, sendLog, outVars>>

\* a PopReg of the region registered at the start
DPopReg(p) ==
    /\ Once(p)
    /\ mPopRequests[p] = <<>>
    /\ PopReg(p, p * MemSize)
    /\ popLog' = [popLog EXCEPT ![p] = Append(@, PopEntry(p, p * MemSize))]
    /\ UNCHANGED <<mem, putVars, sendVars, tagVars, mEnded, mAbort, aborter, logVars,
                   outVars>>

NextDeferred ==
    \/ \E p \in Procs : USync(p)
    \/ \E p \in Procs : SyncPhaseA(p)
    \/ \E p \in Procs : SyncPhaseB(p)
    \/ \E p \in Procs : SyncPhaseC(p)
    \/ \E p \in Procs : SyncResume(p)
    \/ \E p \in Procs : URegister(p)
    \/ \E p \in Procs : DPut(p)
    \/ \E p \in Procs : DGet(p)
    \/ \E p \in Procs : DSend(p)
    \/ \E p \in Procs : DPushReg(p)
    \/ \E p \in Procs : DPopReg(p)

SpecDeferred == InitFree /\ [][NextDeferred]_vars

(***************************************************************************)
(* The barrier protocol under fair scheduling: every thread that can take  *)
(* a step of Sync or End eventually takes it, and user code eventually     *)
(* calls Sync or End.                                                      *)
(***************************************************************************)
Fairness ==
    /\ \A p \in Procs : WF_vars(SyncResume(p))
    /\ \A p \in Procs : WF_vars(SyncPhaseA(p) \/ SyncPhaseB(p) \/ SyncPhaseC(p))
    /\ \A p \in Procs : WF_vars(USync(p) \/ UEnd(p))
    /\ WF_vars(EndJoin)

SpecFair == InitFree /\ [][NextBarrier]_vars /\ Fairness

(***************************************************************************)
(* What the histories say.                                                 *)
(***************************************************************************)
\* Sync number syncRet[t] has returned on t and t has not run user code since
Returned(t) == pc[t] = "user" /\ ops[t] = 0 /\ syncRet[t] >= 1

PutCells(e) == e.at .. e.at + e.size - 1
GetCells(e) == e.dst .. e.dst + e.size - 1
PutIds == {si \in Procs \X (1 .. MaxOps + MaxIter) : si[2] \in DOMAIN putLog[si[1]]}
GetIds == {si \in Procs \X (1 .. MaxOps + MaxIter) : si[2] \in DOMAIN getLog[si[1]]}
PutOf(si) == putLog[si[1]][si[2]]
GetOf(si) == getLog[si[1]][si[2]]
\* the Puts and the Gets of superstep k that write cell a
PutWriters(k, a) == {si \in PutIds : PutOf(si).k = k /\ a \in PutCells(PutOf(si))}
GetWriters(k, a) == {si \in GetIds : GetOf(si).k = k /\ a \in GetCells(GetOf(si))}

(***************************************************************************)
(* C1                                                                      *)
(***************************************************************************)
\* C1: unless the abort flag is set, a process has passed a gate only if every
\* process has reached that gate, and a Sync has returned on a process only if
\* every process has entered that Sync.
C1_BarrierTotality ==
    mAbort \/ \A p, q \in Procs : passed[p] <= arrived[q] /\ syncRet[p] <= syncNo[q]

\* a second Sync has returned on one process while another is still at its last gate
C1_Witness ==
    /\ ~mAbort
    /\ \E p, q \in Procs : syncRet[p] = 2 /\ pc[q] = "waitD" /\ syncNo[q] = 2

(***************************************************************************)
(* C2                                                                      *)
(***************************************************************************)
\* C2: when Sync k has returned on t, every cell that exactly one Put of
\* superstep k (and no Get) writes on t holds what the Put's source held when
\* the Put was issued; and in SyncTest j = i after the i-th Sync of the loop.
C2_PutDelivery ==
    /\ \A t \in Procs : Returned(t) =>
          \A si \in PutIds :
             LET e == PutOf(si)
             IN (e.k = syncRet[t] /\ e.to = t) =>
                   \A a \in PutCells(e) :
                      (PutWriters(e.k, a) = {si} /\ GetWriters(e.k, a) = {})
                         => mem[a] = e.cells[a - e.at + 1]
    /\ \A p \in Procs :
          (prog = "SyncTest" /\ pc[p] = "user" /\ upc[p] = 4) => mem[J(p)] = iter[p]

\* a Put from another process was delivered although its source was changed
\* after the Put, and it changed the destination
C2_Witness ==
    \E t \in Procs : Returned(t) /\
       \E si \in PutIds :
          LET e == PutOf(si)
          IN /\ e.k = syncRet[t] /\ e.to = t /\ si[1] # t
             /\ PutWriters(e.k, e.at) = {si} /\ GetWriters(e.k, e.at) = {}
             /\ mem[e.src] # e.cells[1]
             /\ mem[e.at] = e.cells[1]
             /\ InitMem[e.at] # e.cells[1]

(***************************************************************************)
(* C4                                                                      *)
(***************************************************************************)
\* C4: when Sync k has returned on A, every cell that exactly one Get of
\* superstep k (and no Put) writes on A holds what the source cell held when
\* the last process reached the first gate of Sync k.
C4_GetPhaseOrdering ==
    \A t \in Procs : Returned(t) =>
       \A si \in GetIds :
          LET e == GetOf(si)
          IN (si[1] = t /\ e.k = syncRet[t]) =>
                \A a \in GetCells(e) :
                   (GetWriters(e.k, a) = {si} /\ PutWriters(e.k, a) = {})
                      => mem[a] = memAtA[e.at + (a - e.dst)]

\* a Get was delivered whose source cell a Put of the same superstep overwrote
C4_Witness ==
    \E t \in Procs : Returned(t) /\
       \E si \in GetIds :
          LET e == GetOf(si)
          IN /\ si[1] = t /\ e.k = syncRet[t] /\ e.from # t
             /\ GetWriters(e.k, e.dst) = {si} /\ PutWriters(e.k, e.dst) = {}
             /\ PutWriters(e.k, e.at) # {}
             /\ mem[e.at] # memAtA[e.at]
             /\ mem[e.dst] = memAtA[e.at]
             /\ pc[e.from] = "user"

(***************************************************************************)
(* C7                                                                      *)
(***************************************************************************)
\* the Puts of superstep k that owner s issued to t and that write cell a
OwnersPuts(s, t, k, a) == {si \in PutWriters(k, a) : si[1] = s /\ PutOf(si).to = t}
Earliest(ids) == CHOOSE si \in ids : \A sj \in ids : si[2] <= sj[2]
\* the processes whose queue towards t holds a write of cell a in superstep k:
\* the issuers of Puts and the servers of Gets
WritersOf(k, a) ==
    {si[1] : si \in PutWriters(k, a)} \cup {GetOf(si).from : si \in GetWriters(k, a)}

\* C7 as stated: of two or more Puts of one owner to one receiver that overlap
\* in a cell, the earliest issued decides the cell.
C7_PutOverlapAsStated ==
    \A t \in Procs : Returned(t) =>
       \A s \in Procs : \A a \in OwnAddr(t) :
          LET ids == OwnersPuts(s, t, syncRet[t], a)
          IN Cardinality(ids) >= 2 =>
                mem[a] = PutOf(Earliest(ids)).cells[a - PutOf(Earliest(ids)).at + 1]

\* C7: of two or more Puts of one owner to one receiver that overlap in a
\* cell, the earliest issued decides the cell, provided that no process with a
\* higher number than the owner issued a Put or served a Get that writes the
\* cell in that superstep.
C7_PutOverlap ==
    \A t \in Procs : Returned(t) =>
       \A s \in Procs : \A a \in OwnAddr(t) :
          LET ids == OwnersPuts(s, t, syncRet[t], a)
          IN (Cardinality(ids) >= 2 /\ \A w \in WritersOf(syncRet[t], a) : w <= s) =>
                mem[a] = PutOf(Earliest(ids)).cells[a - PutOf(Earliest(ids)).at + 1]

\* two Puts of process 0 to the same cell of process 1 with different values
\* were delivered: the cell holds the first one's value
C7_Witness ==
    \E t \in Procs \ {0} : Returned(t) /\
       \E a \in OwnAddr(t) :
          LET ids == OwnersPuts(0, t, syncRet[t], a)
          IN /\ Cardinality(ids) = 2
             /\ WritersOf(syncRet[t], a) = {0}
             /\ \E si, sj \in ids :
                   /\ si[2] < sj[2]
                   /\ PutOf(si).cells[a - PutOf(si).at + 1]
                         # PutOf(sj).cells[a - PutOf(sj).at + 1]
                   /\ mem[a] = PutOf(si).cells[a - PutOf(si).at + 1]

(***************************************************************************)
(* C3                                                                      *)
(***************************************************************************)
\* a step of user code: no process moves
UserStep == pc' = pc

\* C3: a step of user code that queues a Put or a Get leaves memory as it is;
\* one that stages a Send leaves every delivered queue, receive arena and
\* receive index as it is; one that queues a PushReg or a PopReg leaves every
\* address map and every index table as it is.
C3_DeferredEffect ==
    [][UserStep =>
          /\ (mPutRequests' # mPutRequests \/ mGetRequests' # mGetRequests) => mem' = mem
          /\ mTmpSendRequests' # mTmpSendRequests =>
                UNCHANGED <<mSendRequests, mSendBuffers, mSendReceivedIndex>>
          /\ (mPushRequests' # mPushRequests \/ mPopRequests' # mPopRequests) =>
                UNCHANGED <<mRegisters, mThreadRegisterLocation>>]_vars

\* process 0 has issued all five operations towards process 1 and none shows:
\* the Put's and the Get's destination differ from what will be written, the
\* delivered queue is empty, the popped address is still mapped and the pushed
\* one is not in the table
C3_Witness ==
    /\ \A p \in Procs : pc[p] = "user"
    /\ Len(putLog[0]) = 1 /\ putLog[0][1].to = 1
    /\ mem[putLog[0][1].at] # putLog[0][1].cells[1]
    /\ Len(getLog[0]) = 1 /\ getLog[0][1].from = 1
    /\ mem[getLog[0][1].dst] # mem[getLog[0][1].at]
    /\ Len(sendLog[0]) = 1 /\ sendLog[0][1].to = 1
    /\ mSendRequests[1] = <<>>
    /\ mPopRequests[0] # <<>> /\ mPopRequests[0][1].popRegister \in DOMAIN mRegisters[0]
    /\ mPushRequests[0] # <<>> /\ Len(mThreadRegisterLocation[0]) = 1

(***************************************************************************)
(* C5                                                                      *)
(***************************************************************************)
\* the Sends of superstep k to t by owners 0 .. n-1, owner by owner, in the
\* order each owner issued them
RECURSIVE SentUpTo(_, _, _)
SentUpTo(t, k, n) ==
    IF n = 0 THEN <<>>
    ELSE SentUpTo(t, k, n - 1)
            \o SelectSeq(sendLog[n - 1], LAMBDA e : e.k = k /\ e.to = t)

Sent(t) == SentUpTo(t, syncRet[t], NProcs)
InUserCode(t) == pc[t] = "user" /\ syncRet[t] >= 1

\* C5: for the message at the receive index of a GetTag, status is the length
\* of the payload sent and the tag read is the tag sent; a Move with room for
\* the payload copies the payload sent; and in BspTest, where every process
\* sends its pid to (pid + 7) mod P, the Move yields (pid + P - 7) mod P.
C5_RoundTripSend ==
    /\ \A t \in Procs : InUserCode(t) =>
          /\ (tagAt[t].k = syncRet[t] /\ tagAt[t].index < Len(Sent(t))) =>
                /\ status[t] = Len(Sent(t)[tagAt[t].index + 1].payload)
                /\ tagOut[t] = Sent(t)[tagAt[t].index + 1].tag
          /\ (moved[t].k = syncRet[t] /\ moved[t].index < Len(Sent(t))) =>
                LET p == Sent(t)[moved[t].index + 1].payload
                IN moved[t].max >= Len(p) => Cells(mem, moved[t].payload, Len(p)) = p
    /\ \A t \in Procs :
          (prog = "BspTest" /\ upc[t] >= 5) => mem[I(t)] = (t + NProcs - RingShift) % NProcs

\* process 1 received a message from each owner, its receive index is on the
\* message of owner 1, whose tag and payload differ from those of owner 0's,
\* and its GetTag and its Move are both of that message
C5_Witness ==
    /\ InUserCode(1)
    /\ Len(Sent(1)) = 2
    /\ \E e \in {sendLog[0][i] : i \in DOMAIN sendLog[0]} : e.to = 1
    /\ Sent(1)[1].tag # Sent(1)[2].tag
    /\ Sent(1)[1].payload # Sent(1)[2].payload
    /\ Len(Sent(1)[1].payload) >= 1
    /\ Len(Sent(1)[2].payload) = 2
    /\ tagAt[1] = [k |-> syncRet[1], index |-> 1]
    /\ moved[1].k = syncRet[1] /\ moved[1].index = 1 /\ moved[1].max = 2

(***************************************************************************)
(* C6                                                                      *)
(***************************************************************************)
\* the messages of t's delivered queue, read out of t's receive arena
Delivered(t) ==
    [i \in 1 .. Len(mSendRequests[t]) |->
        LET r == mSendRequests[t][i]
        IN [payload |-> ExtractCells(mSendBuffers[t], r.bufferLocation, r.bufferSize),
            tag |-> ExtractCells(mSendBuffers[t], r.tagLocation, r.tagSize)]]

Contents(sent) == [i \in 1 .. Len(sent) |-> [payload |-> sent[i].payload, tag |-> sent[i].tag]]

\* C6: when Sync k has returned on t, the delivered queue of t is the Sends of
\* superstep k to t, owner 0 first, each owner's in the order it issued them,
\* each once and nothing else.
C6_SendDeliveryOrder ==
    \A t \in Procs : InUserCode(t) => Delivered(t) = Contents(Sent(t))

\* three different messages were delivered to one process: two of owner 0, in
\* the order sent, then one of owner 1
C6_Witness ==
    \E t \in Procs :
       /\ InUserCode(t)
       /\ Len(mSendRequests[t]) = 3
       /\ Cardinality({Delivered(t)[i] : i \in 1 .. 3}) = 3
       /\ Len(SentUpTo(t, syncRet[t], 1)) = 2

(***************************************************************************)
(* C8                                                                      *)
(***************************************************************************)
\* the number of PushRegs p issued in the superstep that Sync k ends
PushedIn(p, k) == Cardinality({g \in DOMAIN pushLog[p] : pushLog[p][g].k = k})
\* all processes issued the same number of PushRegs in every superstep up to k
SameCounts(k) == \A j \in 1 .. k : \A p, q \in Procs : PushedIn(p, j) = PushedIn(q, j)

\* C8: the index table of p holds, at index g, the address of p's g-th PushReg;
\* a pending push carries the register counter's value before its increment,
\* and a mapped address carries the index the table has it at; and when the
\* same Sync has returned on two processes and the processes issued the same
\* number of PushRegs in every superstep so far, their index tables have the
\* same length.
C8_PushRegConsistency ==
    /\ \A p \in Procs :
          /\ Len(mThreadRegisterLocation[p]) <= Len(pushLog[p])
          /\ \A g \in DOMAIN mThreadRegisterLocation[p] :
                mThreadRegisterLocation[p][g] = pushLog[p][g].ident
          /\ \A i \in DOMAIN mPushRequests[p] :
                mPushRequests[p][i].registerInfo.registerCount
                   = Len(mThreadRegisterLocation[p]) + i - 1
          /\ \A a \in DOMAIN mRegisters[p] :
                mThreadRegisterLocation[p][mRegisters[p][a].registerCount + 1] = a
    /\ \A p, q \in Procs :
          (InUserCode(p) /\ InUserCode(q) /\ syncRet[p] = syncRet[q]
              /\ SameCounts(syncRet[p]))
             => Len(mThreadRegisterLocation[p]) = Len(mThreadRegisterLocation[q])

\* the second Sync has returned on both processes, each pushed one address in
\* each superstep, two different ones
C8_Witness ==
    /\ \A p \in Procs : InUserCode(p) /\ syncRet[p] = 2
    /\ SameCounts(2)
    /\ \A p \in Procs :
          /\ Len(mThreadRegisterLocation[p]) = 2
          /\ mThreadRegisterLocation[p][1] # mThreadRegisterLocation[p][2]

(***************************************************************************)
(* C9                                                                      *)
(***************************************************************************)
\* p is blocked at a gate whose round is not complete
Blocked(p) == pc[p] \in WaitPcs /\ barGen = myGen[p]

\* C9: once the abort flag is set, a process that enters a gate, and a process
\* that leaves a gate it is blocked at, does so by raising the abort error;
\* no process stays at a gate forever; every auxiliary worker terminates.
C9_AbortPropagation ==
    /\ [][\A p \in Procs :
             (mAbort /\ (arrived'[p] # arrived[p] \/ (Blocked(p) /\ pc'[p] # pc[p])))
                => pc'[p] = Unwind(p)]_vars
    /\ \A p \in Procs : (mAbort /\ pc[p] \in WaitPcs) ~> (pc[p] \notin WaitPcs)
    /\ \A p \in Procs \ {0} : mAbort ~> (pc[p] = "terminated")

\* an auxiliary worker that did not call Abort has left a gate of Sync by
\* raising, and its thread has terminated
C9_Witness ==
    \E p \in Procs \ {0} :
       /\ aborter \notin {p, NoProc}
       /\ pc[p] = "terminated"
       /\ arrived[p] > passed[p]
       /\ ~mEnded

(***************************************************************************)
(* C10                                                                     *)
(***************************************************************************)
\* C10: when a worker has called Abort, the abort error does not escape
\* uncaught from the spawning thread.
C10_AbortOutcome == mAbort => pc[0] # "uncaught"

(***************************************************************************)
(* Programs that run to their end without abort: every process makes the   *)
(* same number of Sync calls and then calls End.  The free program makes   *)
(* MaxSync of them, SyncTest one before its loop and one per iteration.    *)
(* Every thread that can take a step eventually takes one.                 *)
(***************************************************************************)
\* bsp_end() of the free program, after its last Sync
NEnd(p) ==
    /\ syncNo[p] = MaxSync
    /\ UEnd(p)

NextTerm ==
    \/ \E p \in Procs : USync(p)
    \/ \E p \in Procs : SyncPhaseA(p)
    \/ \E p \in Procs : SyncPhaseB(p)
    \/ \E p \in Procs : SyncPhaseC(p)
    \/ \E p \in Procs : SyncResume(p)
    \/ \E p \in Procs : NEnd(p)
    \/ \E p \in Procs : TPushReg(p)
    \/ \E p \in Procs : TSync(p)
    \/ \E p \in Procs : TPut(p)
    \/ \E p \in Procs : TIncrement(p)
    \/ \E p \in Procs : TEnd(p)
    \/ EndJoin

\* the steps of the thread of process p
ThreadStep(p) ==
    \/ USync(p) \/ SyncPhaseA(p) \/ SyncPhaseB(p) \/ SyncPhaseC(p) \/ SyncResume(p)
    \/ NEnd(p) \/ TPushReg(p) \/ TSync(p) \/ TPut(p) \/ TIncrement(p) \/ TEnd(p)

FairnessTerm ==
    /\ \A p \in Procs : WF_vars(ThreadStep(p))
    /\ WF_vars(EndJoin)

SpecTerm == InitPutGet /\ [][NextTerm]_vars /\ FairnessTerm

(***************************************************************************)
(* C11                                                                     *)
(***************************************************************************)
\* the most Sync calls a process of these programs makes
SyncCalls == IF MaxSync > MaxIter + 1 THEN MaxSync ELSE MaxIter + 1

\* C11: when no process aborts and every process makes the same number of Sync
\* calls and then calls End, every Sync call that a process enters returns on
\* it, End returns on pid 0, and it returns only when every auxiliary worker
\* has terminated.
C11_Termination ==
    /\ \A p \in Procs : \A k \in 1 .. SyncCalls : (syncNo[p] = k) ~> (syncRet[p] = k)
    /\ <>(pc[0] = "done")
    /\ [](pc[0] = "done" => \A q \in Procs \ {0} : pc[q] = "terminated")

\* SyncTest has run to its end: each process made all its Syncs through the
\* same barrier, End has returned on pid 0 and the workers have terminated
C11_Witness ==
    /\ prog = "SyncTest"
    /\ \A p \in Procs : syncRet[p] = MaxIter + 1 /\ passed[p] = 4 * (MaxIter + 1) + 1
    /\ pc[0] = "done"
    /\ \A q \in Procs \ {0} : pc[q] = "terminated"

(***************************************************************************)
(* Tag sizes: user code that proposes a tag size in any superstep, the     *)
(* processes not always the same one, and sends.                           *)
(***************************************************************************)
UPropose(p) ==
    /\ Issues(p)
    /\ \E size \in 0 .. MaxTag : SetTagsize(p, size)
    /\ UNCHANGED <<mem, regVars, putVars, sendVars, mEnded, mAbort, aborter, popLog,
                   logVars, status, tagOut, tagAt, moved, qsize>>

NextTag ==
    \/ \E p \in Procs : USync(p)
    \/ \E p \in Procs : SyncPhaseA(p)
    \/ \E p \in Procs : SyncPhaseB(p)
    \/ \E p \in Procs : SyncPhaseC(p)
    \/ \E p \in Procs : SyncResume(p)
    \/ \E p \in Procs : UPropose(p)
    \/ \E p \in Procs : USend(p)

SpecTag == InitFree /\ [][NextTag]_vars

(***************************************************************************)
(* C12                                                                     *)
(***************************************************************************)
\* C12: the tag size changes only in the step in which pid 0 leaves phase A,
\* to the size pid 0 proposed, and no process is in user code then; the
\* requests a process in user code has staged carry the tag size in force;
\* and after Sync k has returned on a process, the tag size is the one pid 0
\* had proposed when it entered Sync k.
C12_TagSizePropagation ==
    /\ [][mTagSize' # mTagSize =>
             /\ pc[0] = "phaseA" /\ pc'[0] # "phaseA"
             /\ mTagSize' = mNewTagSize[0]
             /\ \A p \in Procs : pc[p] # "user"]_vars
    /\ [](\A f, t \in Procs :
             pc[f] = "user" => \A i \in DOMAIN mTmpSendRequests[f][t] :
                                  mTmpSendRequests[f][t][i].tagSize = mTagSize)
    /\ [](\A p \in Procs : InUserCode(p) => mTagSize = tagLog[syncRet[p]])

\* both processes proposed size 1, the first Sync adopted it, and process 1
\* then staged a Send that carries it
C12_Witness ==
    /\ InUserCode(1) /\ syncRet[1] = 1
    /\ tagLog = <<1>> /\ mTagSize = 1
    /\ \E t \in Procs : \E i \in DOMAIN mTmpSendRequests[1][t] :
          mTmpSendRequests[1][t][i].tagSize = 1

(***************************************************************************)
(* C13                                                                     *)
(***************************************************************************)
\* C13: no step changes the tag size while the size every process has
\* proposed is the tag size in force, so a Sync entered in such a state
\* returns with the tag size as it was; and a SetTagsize call hands back the
\* tag size in force before the call, whatever it proposes.
C13_IdempotentSetTagsize ==
    [][/\ (\A p \in Procs : mNewTagSize[p] = mTagSize) => mTagSize' = mTagSize
       /\ \A p \in Procs :
             (mNewTagSize'[p] # mNewTagSize[p] \/ sizeOut'[p] # sizeOut[p])
                => sizeOut'[p] = mTagSize]_vars

\* the tag size was 1 in the second superstep, both processes called
\* SetTagsize with 1 in it and were handed back 1, and the second Sync has
\* returned with tag size 1
C13_Witness ==
    /\ \A p \in Procs : InUserCode(p) /\ syncRet[p] = 2 /\ sizeOut[p] = 1
                           /\ mNewTagSize[p] = 1
    /\ tagLog = <<1, 1>>
    /\ mTagSize = 1

(***************************************************************************)
(* One-sided communication with any arguments the usage checks let pass:   *)
(* a process registers its first cells as one region, of any size; later   *)
(* it may pop the region, and in its last superstep it may put to and get  *)
(* from any process through the region, once each, at any offset, no cell  *)
(* or one, within the target's cells.                                      *)
(***************************************************************************)
FRegister(p) ==
    /\ prog = "free"
    /\ pc[p] = "user"
    /\ syncNo[p] = 0
    /\ mRegisterCount[p] = 0
    /\ \E size \in 1 .. MemSize :
          /\ PushReg(p, p * MemSize, size)
          /\ pushLog' = [pushLog EXCEPT ![p] = Append(@, PushEntry(p, p * MemSize))]
    /\ UNCHANGED <<ctlVars, syncNo, memAtA, tagLog, mem, putVars, sendVars, tagVars, mEnded,
                   mAbort, aborter, popLog, putLog, getLog, sendLog, outVars, harnessVars>>

\* the cells first .. first + nbytes - 1 are cells of process pid
InCells(pid, first, nbytes) == \A i \in 0 .. nbytes - 1 : first + i \in OwnAddr(pid)

FPut(p) ==
    /\ Uses(p)
    /\ syncRet[p] = MaxSync
    /\ putLog[p] = <<>>
    /\ \E pid \in Procs, offset \in 0 .. MemSize - 1, nbytes \in 0 .. 1 :
          /\ Put(p, pid, p * MemSize, p * MemSize, offset, nbytes)
          /\ InCells(pid, Resolve(p, pid, p * MemSize) + offset, nbytes)
          /\ putLog' = [putLog EXCEPT ![p] =
                           Append(@, PutEntry(p, pid, p * MemSize, p * MemSize, offset,
                                              nbytes))]
    /\ UNCHANGED <<mem, mRegisterCount, mThreadRegisterLocation, mPushRequests,
                   mPopRequests, sendVars, tagVars, mEnded, mAbort, aborter, popLog, getLog,
                   sendLog, pushLog, outVars>>

FGet(p) ==
    /\ Uses(p)
    /\ syncRet[p] = MaxSync
    /\ getLog[p] = <<>>
    /\ \E pid \in Procs, offset \in 0 .. MemSize - 1, nbytes \in 0 .. 1 :
          /\ Get(p, pid, p * MemSize, offset, p * MemSize, nbytes)
          /\ InCells(pid, Resolve(p, pid, p * MemSize) + offset, nbytes)
          /\ getLog' = [getLog EXCEPT ![p] =
                           Append(@, GetEntry(p, pid, p * MemSize, offset, p * MemSize,
                                              nbytes))]
    /\ UNCHANGED <<mem, mRegisterCount, mThreadRegisterLocation, mPushRequests,
                   mPopRequests, sendVars, tagVars, mEnded, mAbort, aborter, popLog, putLog,
                   sendLog, pushLog, outVars>>

NextFrame ==
    \/ \E p \in Procs : USync(p)
    \/ \E p \in Procs : SyncPhaseA(p)
    \/ \E p \in Procs : SyncPhaseB(p)
    \/ \E p \in Procs : SyncPhaseC(p)
    \/ \E p \in Procs : SyncResume(p)
    \/ \E p \in Procs : FRegister(p)
    \/ \E p \in Procs : DPopReg(p)
    \/ \E p \in Procs : FPut(p)
    \/ \E p \in Procs : FGet(p)

SpecFrame == InitFree /\ [][NextFrame]_vars

(***************************************************************************)
(* C14                                                                     *)
(***************************************************************************)
\* process p issues an operation in user code
Acts(p) == pc[p] = "user" /\ pc'[p] = "user" /\ ops'[p] # ops[p]

\* what process q owns: its tables, its request lists, its rows of the queue
\* matrices, its arenas, its delivered queue and its cells of memory
Owned(q) ==
    <<mRegisters[q], mRegisterCount[q], mThreadRegisterLocation[q], mPushRequests[q],
      mPopRequests[q], mPutRequests[q], mGetRequests[q], mPutBufferStacks[q],
      mTmpSendRequests[q], mTmpSendBuffers[q], mSendRequests[q], mSendBuffers[q],
      mSendReceivedIndex[q], [a \in OwnAddr(q) |-> mem[a]]>>

RegisteredSize(t, base) ==
    IF base \in DOMAIN mRegisters[t] THEN mRegisters[t][base].size ELSE 0

\* the Put or Get of record e, issued by p towards t, is pending
Pending(p, e) == pc[p] = "user" /\ e.k = syncNo[p] + 1

\* C20: every pending Put and Get, which passed the usage checks when it was
\* issued, has 0 <= offset and offset + n within the size of the region that
\* the target has registered at the resolved index.
C20_PutGetBounds ==
    /\ \A si \in PutIds :
          LET e == PutOf(si)
          IN Pending(si[1], e) =>
                /\ 0 <= e.offset
                /\ e.offset + e.size <= RegisteredSize(e.to, e.at - e.offset)
    /\ \A si \in GetIds :
          LET e == GetOf(si)
          IN Pending(si[1], e) =>
                /\ 0 <= e.offset
                /\ e.offset + e.size <= RegisteredSize(e.from, e.at - e.offset)

(***************************************************************************)
(* Receiving: user code that sends in the superstep after its first Sync;  *)
(* one process, any of them, asks for the queue size in any superstep and  *)
(* in its last superstep peeks and moves with room for one cell or for all *)
(* cells, in any order and as often as it likes; it may call Move once     *)
(* more when every delivered message has been moved.                       *)
(***************************************************************************)
\* p is the one process that receives: no other process has peeked, moved or
\* asked for the queue size
Receiver(p) ==
    /\ prog = "free"
    /\ pc[p] = "user"
    /\ \A q \in Procs \ {p} : tagAt[q] = NoTag /\ moved[q] = NoMove /\ qsize[q] = NoQSize

RGetTag(p) ==
    /\ Receiver(p)
    /\ syncRet[p] = MaxSync
    /\ GetTag(p)
    /\ tagAt' = [tagAt EXCEPT ![p] = TagEntry(p)]
    /\ UNCHANGED <<barVars, arrived, passed, syncRet, ops, syncNo, memAtA, tagLog, userVars,
                   aborter, popLog, logVars, sizeOut, moved, qsize, harnessVars>>

\* a Move while a delivered message is left, or none was delivered
RMove(p) ==
    /\ Receiver(p)
    /\ syncRet[p] = MaxSync
    /\ mSendRequests[p] = <<>> \/ mSendReceivedIndex[p] < Len(mSendRequests[p])
    /\ \E max \in {1, MemSize} :
          /\ Move(p, p * MemSize, max)
          /\ moved' = [moved EXCEPT ![p] = MoveEntry(p, p * MemSize, max)]
    /\ UNCHANGED <<ctlVars, syncNo, memAtA, tagLog, regVars, putVars, mTmpSendRequests,
                   mTmpSendBuffers, mSendRequests, mSendBuffers, tagVars, mEnded, mAbort,
                   aborter, popLog, logVars, status, tagOut, sizeOut, tagAt, qsize,
                   harnessVars>>

\* a Move when every delivered message has been moved
XMove(p) ==
    /\ Receiver(p)
    /\ syncRet[p] = MaxSync
    /\ mSendRequests[p] # <<>> /\ mSendReceivedIndex[p] = Len(mSendRequests[p])
    /\ \E max \in {1} :
          /\ Move(p, p * MemSize, max)
          /\ moved' = [moved EXCEPT ![p] = MoveEntry(p, p * MemSize, max)]
    /\ UNCHANGED <<ctlVars, syncNo, memAtA, tagLog, regVars, putVars, mTmpSendRequests,
                   mTmpSendBuffers, mSendRequests, mSendBuffers, tagVars, mEnded, mAbort,
                   aborter, popLog, logVars, status, tagOut, sizeOut, tagAt, qsize,
                   harnessVars>>

\* the record of a QSize: the superstep, the Sends the caller has issued so
\* far, and the out-parameters
QSizeEntry(p) ==
    [k |-> syncRet[p], issued |-> Len(sendLog[p]), packets |-> QSize(p).packets,
     accumulatedSize |-> QSize(p).accumulatedSize]

UQSize(p) ==
    /\ Receiver(p)
    /\ Uses(p)
    /\ syncRet[p] >= 1
    /\ qsize' = [qsize EXCEPT ![p] = QSizeEntry(p)]
    /\ UNCHANGED <<userVars, aborter, popLog, logVars, status, tagOut, sizeOut, tagAt,
                   moved>>

NextRecv ==
    \/ \E p \in Procs : USync(p)
    \/ \E p \in Procs : SyncPhaseA(p)
    \/ \E p \in Procs : SyncPhaseB(p)
    \/ \E p \in Procs : SyncPhaseC(p)
    \/ \E p \in Procs : SyncResume(p)
    \/ \E p \in Procs : USend(p)
    \/ \E p \in Procs : RGetTag(p)
    \/ \E p \in Procs : RMove(p)
    \/ \E p \in Procs : XMove(p)
    \/ \E p \in Procs : UQSize(p)

SpecRecv == InitFree /\ [][NextRecv]_vars

(***************************************************************************)
(* C15                                                                     *)
(***************************************************************************)
\* the step is a Move by process p
MoveStep(p) == moved'[p] # moved[p]

\* the first n cells of a payload
Clip(payload, n) == SubSeq(payload, 1, Min(n, Len(payload)))

\* C15: right after a GetTag, status is the payload size of the message sent
\* that the receive index stands at, or SIZE_MAX when the index stands at
\* none; only a Move (or the next Sync) changes the receive index, so a GetTag
\* consumes nothing; and a Move at a message advances the index by one and
\* writes the first min(max_n, payload size) cells of that message's payload,
\* and nothing else.
C15_GetTagAndMove ==
    /\ [](\A t \in Procs :
             (InUserCode(t) /\ tagAt[t] = TagEntry(t)) =>
                status[t] = IF mSendReceivedIndex[t] < Len(Sent(t))
                            THEN Len(Sent(t)[mSendReceivedIndex[t] + 1].payload)
                            ELSE SizeMax)
    /\ [][\A p \in Procs :
             mSendReceivedIndex'[p] # mSendReceivedIndex[p]
                => MoveStep(p) \/ pc[p] = "phaseB"]_vars
    /\ [][\A p \in Procs :
             (MoveStep(p) /\ moved'[p].index < Len(Sent(p))) =>
                /\ mSendReceivedIndex'[p] = moved'[p].index + 1
                /\ mem' = Write(mem, moved'[p].payload,
                                Clip(Sent(p)[moved'[p].index + 1].payload,
                                     moved'[p].max))]_vars

\* a process was sent two messages, the second of two cells; it has moved the
\* first, then the second with room for one cell only, and a GetTag after
\* that reports that none is left
C15_Witness ==
    \E t \in Procs :
       /\ InUserCode(t)
       /\ Len(Sent(t)) = 2
       /\ Len(Sent(t)[2].payload) = 2
       /\ Sent(t)[2].payload[1] # Sent(t)[2].payload[2]
       /\ moved[t] = [k |-> syncRet[t], index |-> 1, payload |-> t * MemSize, max |-> 1]
       /\ mem[t * MemSize] = Sent(t)[2].payload[1]
       /\ mem[t * MemSize + 1] # Sent(t)[2].payload[2]
       /\ mSendReceivedIndex[t] = 2
       /\ tagAt[t] = TagEntry(t)
       /\ status[t] = SizeMax

(***************************************************************************)
(* C17                                                                     *)
(***************************************************************************)
\* the payload sizes of a sequence of Send records, added up
RECURSIVE Bytes(_)
Bytes(sent) == IF sent = <<>> THEN 0 ELSE Len(Head(sent).payload) + Bytes(Tail(sent))

\* the Sends that t had issued in superstep k + 1 when it had issued n Sends
IssuedIn(t, k, n) == SelectSeq(SubSeq(sendLog[t], 1, n), LAMBDA e : e.k = k + 1)

\* C17 as stated: QSize reports the number and the total payload size of the
\* Sends that the caller has issued in the current superstep.
C17_QSizeAsStated ==
    \A t \in Procs :
       (InUserCode(t) /\ qsize[t].k = syncRet[t]) =>
          /\ qsize[t].packets = Len(IssuedIn(t, qsize[t].k, qsize[t].issued))
          /\ qsize[t].accumulatedSize = Bytes(IssuedIn(t, qsize[t].k, qsize[t].issued))

\* C17: QSize reports the number and the total payload size of the messages
\* that the last Sync delivered to the caller, those already moved included.
C17_QSize ==
    \A t \in Procs :
       (InUserCode(t) /\ qsize[t].k = syncRet[t]) =>
          /\ qsize[t].packets = Len(Sent(t))
          /\ qsize[t].accumulatedSize = Bytes(Sent(t))

\* a process that has sent nothing was delivered two messages of three cells
\* in all, has moved one, and QSize has reported 2 and 3
C17_Witness ==
    \E t \in Procs :
       /\ InUserCode(t)
       /\ sendLog[t] = <<>>
       /\ mSendReceivedIndex[t] = 1
       /\ qsize[t].k = syncRet[t]
       /\ qsize[t].packets = 2
       /\ qsize[t].accumulatedSize = 3

(***************************************************************************)
(* C19                                                                     *)
(***************************************************************************)
\* C19: the receive index of a process never exceeds the length of its
\* delivered queue.
C19_ReceiveIndexBound ==
    \A p \in Procs : mSendReceivedIndex[p] <= Len(mSendRequests[p])

(***************************************************************************)
(* Popping a region in use: after the registration and a Sync, a process   *)
(* issues each of Put, Get, PopReg of its region and PushReg of the same   *)
(* address at most once, in any order, and syncs.                          *)
(***************************************************************************)
\* a PushReg of the address registered at the start, with any size
PPushReg(p) ==
    /\ Once(p)
    /\ mPushRequests[p] = <<>>
    /\ \E size \in 1 .. MemSize : PushReg(p, p * MemSize, size)
    /\ pushLog' = [pushLog EXCEPT ![p] = Append(@, PushEntry(p, p * MemSize))]
    /\ UNCHANGED <<mem, putVars, sendVars, tagVars, mEnded, mAbort, aborter, popLog, putLog,
                   getLog, sendLog, outVars>>

NextPop ==
    \/ \E p \in Procs : USync(p)
    \/ \E p \in Procs : SyncPhaseA(p)
    \/ \E p \in Procs : SyncPhaseB(p)
    \/ \E p \in Procs : SyncPhaseC(p)
    \/ \E p \in Procs : SyncResume(p)
    \/ \E p \in Procs : URegister(p)
    \/ \E p \in Procs : DPut(p)
    \/ \E p \in Procs : DGet(p)
    \/ \E p \in Procs : DPopReg(p)
    \/ \E p \in Procs : PPushReg(p)

SpecPop == InitFree /\ [][NextPop]_vars

(***************************************************************************)
(* C16                                                                     *)
(***************************************************************************)
\* the addresses p popped, and those it pushed, in superstep k
PoppedIn(p, k) == {popLog[p][i].ident : i \in {j \in DOMAIN popLog[p] : popLog[p][j].k = k}}
PushedAddrs(p, k) == {pushLog[p][i].ident : i \in {j \in DOMAIN pushLog[p] : pushLog[p][j].k = k}}

\* the addresses of the pushes of p up to superstep k, in the order issued
PushedUpTo(p, k) ==
    LET upTo == SelectSeq(pushLog[p], LAMBDA e : e.k <= k)
    IN [i \in DOMAIN upTo |-> upTo[i].ident]

\* when Sync k has returned on t: the table of t is every address it pushed so
\* far, in order, whatever it popped
TableKept(t) == mThreadRegisterLocation[t] = PushedUpTo(t, syncRet[t])

\* when Sync k has returned on t, which popped in superstep k: the Puts of
\* superstep k to t and the Gets of t from any process were applied
StillApplied(t) ==
    /\ \A si \in PutIds :
          LET e == PutOf(si)
          IN (e.k = syncRet[t] /\ e.to = t /\ PoppedIn(t, e.k) # {}) =>
                \A a \in PutCells(e) :
                   (PutWriters(e.k, a) = {si} /\ GetWriters(e.k, a) = {})
                      => mem[a] = e.cells[a - e.at + 1]
    /\ \A si \in GetIds :
          LET e == GetOf(si)
          IN (si[1] = t /\ e.k = syncRet[t] /\ PoppedIn(e.from, e.k) # {}) =>
                \A a \in GetCells(e) :
                   (GetWriters(e.k, a) = {si} /\ PutWriters(e.k, a) = {})
                      => mem[a] = memAtA[e.at + (a - e.dst)]

\* C16 as stated: when the Sync after a PopReg(addr) has returned on p, addr
\* is not a key of p's map, p's table is as long as it was and holds what it
\* held, and the Puts and Gets of that superstep through the region were
\* applied.
C16_PopRegAsStated ==
    \A p \in Procs : Returned(p) =>
       /\ \A addr \in PoppedIn(p, syncRet[p]) : addr \notin DOMAIN mRegisters[p]
       /\ TableKept(p)
       /\ StillApplied(p)

\* C16: the same, but addr is a key again when p also pushed addr in the
\* superstep of the PopReg: the pops are applied before the pushes.
C16_PopReg ==
    \A p \in Procs : Returned(p) =>
       /\ \A addr \in PoppedIn(p, syncRet[p]) :
             addr \in DOMAIN mRegisters[p] <=> addr \in PushedAddrs(p, syncRet[p])
       /\ TableKept(p)
       /\ StillApplied(p)

\* a process popped its region and pushed nothing; its Sync has returned, the
\* address is out of its map and still in its table, a Put of another process
\* to the region has changed it and a Get of another process has read it
C16_Witness ==
    \E t \in Procs : \E s \in Procs \ {t} :
       /\ Returned(t) /\ Returned(s)
       /\ PoppedIn(t, syncRet[t]) = {t * MemSize}
       /\ PushedAddrs(t, syncRet[t]) = {}
       /\ t * MemSize \notin DOMAIN mRegisters[t]
       /\ mThreadRegisterLocation[t] = <<t * MemSize>>
       /\ \E si \in PutIds :
             /\ si[1] = s /\ PutOf(si).to = t /\ PutOf(si).k = syncRet[t]
             /\ mem[PutOf(si).at] = PutOf(si).cells[1]
             /\ InitMem[PutOf(si).at] # PutOf(si).cells[1]
       /\ \E si \in GetIds :
             /\ si[1] = s /\ GetOf(si).from = t /\ GetOf(si).k = syncRet[s]
             /\ mem[GetOf(si).dst] = memAtA[GetOf(si).at]
             /\ InitMem[GetOf(si).dst] # memAtA[GetOf(si).at]

(***************************************************************************)
(* C18                                                                     *)
(***************************************************************************)
\* the shared objects: the element of a per-process vector, or the queue of a
\* matrix from one process to another
Own(name, p) == <<name, p, p>>
FromTo(name, f, t) == <<name, f, t>>

\* what the code that process p is in may write: user code calls Put, Get,
\* Send, PushReg, PopReg, Move and GetTag; the stretches of Sync run the
\* Process functions on p
Writes(p) ==
    CASE pc[p] = "user" ->
            {Own("mPutBufferStacks", p), Own("mPushRequests", p), Own("mPopRequests", p)}
               \cup {FromTo(n, p, t) : n \in {"mPutRequests", "mGetRequests",
                                              "mTmpSendRequests", "mTmpSendBuffers"},
                                       t \in Procs}
      [] pc[p] = "phaseA" ->
            {Own("mPutBufferStacks", p)}
               \cup {FromTo("mGetRequests", o, p) : o \in Procs}
               \cup {FromTo("mPutRequests", p, o) : o \in Procs}
      [] pc[p] = "phaseB" ->
            {Own("mPopRequests", p), Own("mSendRequests", p), Own("mSendBuffers", p)}
               \cup {FromTo(n, o, p) : n \in {"mTmpSendRequests", "mTmpSendBuffers",
                                              "mPutRequests"},
                                       o \in Procs}
      [] pc[p] = "phaseC" ->
            {Own("mPutBufferStacks", p), Own("mPushRequests", p),
             Own("mThreadRegisterLocation", p)}
      [] OTHER -> {}

\* what it may read and not write
Reads(p) ==
    CASE pc[p] = "user" ->
            {Own("mSendRequests", p), Own("mSendBuffers", p)}
               \cup {Own("mThreadRegisterLocation", t) : t \in Procs}
      [] pc[p] = "phaseB" -> {Own("mPutBufferStacks", o) : o \in Procs}
      [] OTHER -> {}

\* C18: no process is in code that reads or writes a put arena, a queue, a
\* send staging arena or an index table while another process is in code that
\* writes it.
C18_RaceFreedom ==
    \A p, q \in Procs :
       p # q => Writes(p) \cap (Reads(q) \cup Writes(q)) = {}

\* a process is extracting the Puts of another out of that process's arena,
\* and the owner, done with its own inbound Puts, is held at the gate before
\* the phase that clears the arena
C18_Witness ==
    \E t \in Procs : \E s \in Procs \ {t} :
       /\ pc[t] = "phaseB"
       /\ GetQueueToMe(mPutRequests, s, t) # <<>>
       /\ mPutBufferStacks[s] # <<>>
       /\ pc[s] = "waitC"

(***************************************************************************)
(* Changing the tag size while messages are under way: in the superstep    *)
(* before the last Sync a process sends and proposes a tag size, in any    *)
(* order; after the last Sync it peeks at what was delivered.              *)
(***************************************************************************)
\* a SetTagsize in the superstep that the last Sync ends
LPropose(p) ==
    /\ Issues(p)
    /\ syncRet[p] >= 1
    /\ syncNo[p] = MaxSync - 1
    /\ \E size \in 0 .. MaxTag : SetTagsize(p, size)
    /\ UNCHANGED <<mem, regVars, putVars, sendVars, mEnded, mAbort, aborter, popLog, logVars,
                   status, tagOut, tagAt, moved, qsize>>

NextRetag ==
    \/ \E p \in Procs : USync(p)
    \/ \E p \in Procs : SyncPhaseA(p)
    \/ \E p \in Procs : SyncPhaseB(p)
    \/ \E p \in Procs : SyncPhaseC(p)
    \/ \E p \in Procs : SyncResume(p)
    \/ \E p \in Procs : USend(p)
    \/ \E p \in Procs : LPropose(p)
    \/ \E p \in Procs : RGetTag(p)

SpecRetag == InitFree /\ [][NextRetag]_vars

(***************************************************************************)
(* C21                                                                     *)
(***************************************************************************)
\* the last Sync has returned on every process that is not stopped, and all
\* processes went into it with the same proposal (no process proposes after)
SameProposal ==
    /\ \A p \in Procs : syncRet[p] = MaxSync
    /\ \A p, q \in Procs : mNewTagSize[p] = mNewTagSize[q]

\* C21: when all processes proposed the same tag size, a delivered message
\* that a GetTag has read carries the tag size in force, and the GetTag's
\* assertion has held.
C21_GetTagTagSize ==
    \A t \in Procs :
       (/\ SameProposal
        /\ tagAt[t] = TagEntry(t)
        /\ mSendReceivedIndex[t] < Len(mSendRequests[t])) =>
          /\ mSendRequests[t][mSendReceivedIndex[t] + 1].tagSize = mTagSize
          /\ pc[t] # "asserted"

(***************************************************************************)
(* C22                                                                     *)
(***************************************************************************)
\* the Gets of superstep k that a issued from b and that write cell c
GetsFrom(a, b, k, c) == {si \in GetWriters(k, c) : si[1] = a /\ GetOf(si).from = b}
Latest(ids) == CHOOSE si \in ids : \A sj \in ids : sj[2] <= si[2]
\* what a Get delivers to cell c: the source cell as it was at the first gate
GetValue(si, c) == memAtA[GetOf(si).at + (c - GetOf(si).dst)]
PutValue(si, c) == PutOf(si).cells[c - PutOf(si).at + 1]

\* b is through the first phase of its Sync and a has not begun its second
Converted(a, b) ==
    /\ pc[b] \in {"waitB", "phaseB", "waitC"}
    /\ pc[a] \in {"phaseA", "waitB", "phaseB"}
    /\ a = b => pc[a] \in {"waitB", "phaseB"}

Reverse(seq) == [i \in 1 .. Len(seq) |-> seq[Len(seq) - i + 1]]

\* the queue from b to a then: b's own Puts to a as issued, then a's Gets from
\* b, the last issued first
QueueOrder(a, b) ==
    LET own == SelectSeq(putLog[b], LAMBDA e : e.k = syncNo[b] /\ e.to = a)
        gets == Reverse(SelectSeq(getLog[a], LAMBDA e : e.k = syncNo[a] /\ e.from = b))
        queue == GetQueueToMe(mPutRequests, b, a)
    IN [i \in DOMAIN queue |-> <<queue[i].destination, queue[i].size>>]
          = [i \in DOMAIN own |-> <<own[i].at, own[i].size>>]
               \o [i \in DOMAIN gets |-> <<gets[i].dst, gets[i].size>>]

\* C22 as stated: the queue from B to A holds B's Puts and then A's Gets in
\* reverse; of two or more Gets of A from B that overlap in a cell which no
\* Put of B writes, the last issued decides the cell; and a cell that both a
\* Get of A from B and a Put of B to A write holds the Put's value.
C22_GetOrderAsStated ==
    /\ \A a, b \in Procs : Converted(a, b) => QueueOrder(a, b)
    /\ \A a \in Procs : Returned(a) =>
          \A b \in Procs : \A c \in OwnAddr(a) :
             LET gets == GetsFrom(a, b, syncRet[a], c)
                 puts == OwnersPuts(b, a, syncRet[a], c)
             IN /\ (Cardinality(gets) >= 2 /\ puts = {})
                      => mem[c] = GetValue(Latest(gets), c)
                /\ (gets # {} /\ puts # {})
                      => mem[c] = PutValue(Earliest(puts), c)

\* C22: the same, provided that no process with a higher number than B issued
\* a Put or served a Get that writes the cell in that superstep.
C22_GetOrder ==
    /\ \A a, b \in Procs : Converted(a, b) => QueueOrder(a, b)
    /\ \A a \in Procs : Returned(a) =>
          \A b \in Procs : \A c \in OwnAddr(a) :
             LET gets == GetsFrom(a, b, syncRet[a], c)
                 puts == OwnersPuts(b, a, syncRet[a], c)
             IN (\A w \in WritersOf(syncRet[a], c) : w <= b) =>
                   /\ (Cardinality(gets) >= 2 /\ puts = {})
                         => mem[c] = GetValue(Latest(gets), c)
                   /\ (gets # {} /\ puts # {})
                         => mem[c] = PutValue(Earliest(puts), c)

\* a process issued two Gets from another into one cell, with different
\* values, and the cell holds the second's; and a Get of it and a Put of the
\* other wrote a second cell, with different values, and it holds the Put's
C22_Witness ==
    \E a \in Procs : \E b \in Procs \ {a} :
       /\ Returned(a)
       /\ \E c \in OwnAddr(a) :
             LET gets == GetsFrom(a, b, syncRet[a], c)
             IN /\ Cardinality(gets) = 2
                /\ WritersOf(syncRet[a], c) = {b}
                /\ OwnersPuts(b, a, syncRet[a], c) = {}
                /\ \E si \in gets : GetValue(si, c) # GetValue(Latest(gets), c)
                /\ mem[c] = GetValue(Latest(gets), c)
       /\ \E d \in OwnAddr(a) :
             LET gets == GetsFrom(a, b, syncRet[a], d)
                 puts == OwnersPuts(b, a, syncRet[a], d)
             IN /\ gets # {} /\ puts # {}
                /\ \A si \in gets : GetValue(si, d) # PutValue(Earliest(puts), d)
                /\ mem[d] = PutValue(Earliest(puts), d)

====
